---- MODULE Spec2Model ----
(***************************************************************************)
(* A model of mage-rs: the statement-chain flattener (src/src/flatten.rs), *)
(* the tree validator (src/src/validate.rs), process_tree (src/src/lib.rs) *)
(* and the command-line front end (src/src/main.rs).                       *)
(*                                                                         *)
(* Text is modelled as a sequence of one-character strings, so that the    *)
(* "{} {}" formatting and the splitn(2, ' ') parsing the flattener uses    *)
(* between its steps are computed character by character.                  *)
(*                                                                         *)
(* A syntax-tree node is a record [kind, text, children]: its node kind,   *)
(* the source text of its byte range, and its children in order.           *)
(***************************************************************************)
EXTENDS Integers, Sequences, FiniteSets, TLC

(***************************************************************************)
(* Text helpers (Rust str methods used by the code).                       *)
(***************************************************************************)

DigitChars == <<"0", "1", "2", "3", "4", "5", "6", "7", "8", "9">>

is_ascii_digit(c) == c \in {DigitChars[i] : i \in 1..10}

starts_with(s, p) == Len(s) >= Len(p) /\ SubSeq(s, 1, Len(p)) = p

ends_with(s, p) == Len(s) >= Len(p) /\ SubSeq(s, Len(s) - Len(p) + 1, Len(s)) = p

\* str::find: the 1-based position of the first occurrence of p in s, 0 if none.
find(s, p) ==
    LET hits == {i \in 1..(Len(s) - Len(p) + 1) : SubSeq(s, i, i + Len(p) - 1) = p}
    IN  IF hits = {} THEN 0 ELSE CHOOSE i \in hits : \A j \in hits : i <= j

contains(s, p) == find(s, p) # 0

\* s.splitn(2, ' ').collect(): one piece when s holds no space, else the text
\* before the first space and the whole rest after it.
splitn2(s) ==
    LET i == find(s, <<" ">>)
    IN  IF i = 0 THEN <<s>>
        ELSE <<SubSeq(s, 1, i - 1), SubSeq(s, i + 1, Len(s))>>

RECURSIVE usize_to_string(_)
\* Display of a usize (the "{}" of format!).
usize_to_string(n) ==
    IF n < 10 THEN <<DigitChars[n + 1]>>
    ELSE usize_to_string(n \div 10) \o <<DigitChars[(n % 10) + 1]>>

RECURSIVE join(_, _)
\* [String]::join(sep)
join(strs, sep) ==
    IF Len(strs) = 0 THEN <<>>
    ELSE IF Len(strs) = 1 THEN strs[1]
    ELSE strs[1] \o sep \o join(Tail(strs), sep)

\* Remove the element at 1-based position i (Vec::remove).
remove_at(v, i) == SubSeq(v, 1, i - 1) \o SubSeq(v, i + 1, Len(v))

\* Replace the element at 1-based position i.
set_at(v, i, x) == [v EXCEPT ![i] = x]

(***************************************************************************)
(* Option and Result values.  None is the empty sequence, Some(x) is <<x>>.*)
(* A traversal step returns [kind, val, err, cx]: kind is "Ok", "Err" (the *)
(* Err of a Result, propagated by `?`) or "Panic" (an unwrap of None);     *)
(* cx = [chain, counter] carries the statement chain under construction    *)
(* and the temporary counter, the two &mut arguments of the traversal.     *)
(***************************************************************************)

None == <<>>

Some(x) == <<x>>

Ok(v, cx) == [kind |-> "Ok", val |-> <<v>>, err |-> "", cx |-> cx]

Err(msg, cx) == [kind |-> "Err", val |-> <<>>, err |-> msg, cx |-> cx]

Panic(msg, cx) == [kind |-> "Panic", val |-> <<>>, err |-> msg, cx |-> cx]

\* The `?` operator and a panic both leave the enclosing function at once.
Fails(r) == r.kind # "Ok"

(***************************************************************************)
(* The flat representation (src/src/flatten.rs:52-113).                    *)
(***************************************************************************)

FlatVariable(tag, text) == [tag |-> tag, text |-> text]

FlatDefinition(name, operation) == [name |-> name, operation |-> operation]

FlatStatement(definition, expression) ==
    [definition |-> definition, expression |-> expression]

string_to_arithmetic(op) ==
    IF op = <<"+">> THEN Some("Add")
    ELSE IF op = <<"-">> THEN Some("Substract")
    ELSE IF op = <<"*">> THEN Some("Multiply")
    ELSE IF op = <<"/">> THEN Some("Divide")
    ELSE IF op = <<"%">> THEN Some("Modulo")
    ELSE None

create_variable_expression(variable) ==
    [one |-> variable, two |-> None, arithmetic |-> None]

create_binary_expression(left, op, right) ==
    [one |-> left, two |-> Some(right), arithmetic |-> Some(op)]

string_to_variable(s) ==
    IF (Len(s) > 0 /\ is_ascii_digit(s[1])) \/ starts_with(s, <<"0">>)
    THEN FlatVariable("Number", s)
    ELSE IF starts_with(s, <<"\"">>) /\ ends_with(s, <<"\"">>)
    THEN FlatVariable("String", s)
    ELSE FlatVariable("Identifier", s)

variable_to_string(var) == var.text

arithmetic_to_string(op) ==
    CASE op = "Add" -> <<"+">>
      [] op = "Substract" -> <<"-">>
      [] op = "Multiply" -> <<"*">>
      [] op = "Divide" -> <<"/">>
      [] op = "Modulo" -> <<"%">>

expression_to_string_simple(expr) ==
    IF expr.two # None /\ expr.arithmetic # None
    THEN variable_to_string(expr.one) \o <<" ">>
         \o arithmetic_to_string(expr.arithmetic[1]) \o <<" ">>
         \o variable_to_string(expr.two[1])
    ELSE variable_to_string(expr.one)

expression_to_string(expr) == expression_to_string_simple(expr)

\* format!("{}_{}", base_name, temporary_counter)
temporary_name_of(base_name, temporary_counter) ==
    base_name \o <<"_">> \o usize_to_string(temporary_counter)

\* A temporary statement: `name : expression`, always a Constant definition.
temporary_statement(name, expression) ==
    FlatStatement(Some(FlatDefinition(name, "Constant")), Some(expression))

\* push_statement that drops the statement instead of appending it.
push_statement_dropped(cx, statement) == cx

\* push_statement that puts the statement at the front of the chain.
push_statement_front(cx, statement) ==
    [cx EXCEPT !.chain = <<statement>> \o cx.chain]

push_statement(cx, statement) ==
    [cx EXCEPT !.chain = Append(cx.chain, statement)]

next_counter(cx) == [cx EXCEPT !.counter = cx.counter + 1]

(***************************************************************************)
(* process_expression_parts (src/src/flatten.rs:1036-1199).                *)
(***************************************************************************)

\* operators.iter().position(|op| op == "*" || op == "/"), 1-based, 0 = None.
find_high_precedence_operation(operators) ==
    LET hits == {i \in 1..Len(operators) :
                    operators[i] = <<"*">> \/ operators[i] = <<"/">>}
    IN  IF hits = {} THEN 0 ELSE CHOOSE i \in hits : \A j \in hits : i <= j

should_extract_high_precedence(operators) ==
    \E i \in 1..Len(operators) : operators[i] = <<"+">> \/ operators[i] = <<"-">>

\* The state of the two reduction loops: the operand and operator lists and
\* the traversal context.
Loop(kind, err, operands, operators, cx) ==
    [kind |-> kind, err |-> err, operands |-> operands,
     operators |-> operators, cx |-> cx]

\* One reduction step shared by both loops (lines 1100-1130 and 1138-1163):
\* name a temporary, emit `temporary : operands[pos] op operands[pos + 1]`,
\* and replace the three elements by the temporary.
reduce_at(pos, operands, operators, base_name, cx) ==
    LET temporary_name == temporary_name_of(base_name, cx.counter)
        cx1 == next_counter(cx)
        left == operands[pos]
        operator == operators[pos]
        right == operands[pos + 1]
        op == string_to_arithmetic(operator)
    IN  IF op = None
        THEN Loop("Err", "Unknown operator", operands, operators, cx1)
        ELSE Loop("Ok", "",
                  remove_at(set_at(operands, pos, temporary_name), pos + 1),
                  remove_at(operators, pos),
                  push_statement(cx1,
                      temporary_statement(temporary_name,
                          create_binary_expression(string_to_variable(left),
                              op[1], string_to_variable(right)))))

RECURSIVE high_precedence_loop(_, _, _, _)
\* while let Some(pos) = find_high_precedence_operation(&operators) { ... }
high_precedence_loop(operands, operators, base_name, cx) ==
    LET again(r) == IF r.kind # "Ok" THEN r
                    ELSE high_precedence_loop(r.operands, r.operators, base_name, r.cx)
    IN  IF find_high_precedence_operation(operators) # 0 /\ should_extract_high_precedence(operators)
        THEN again(reduce_at(find_high_precedence_operation(operators), operands, operators, base_name, cx))
        ELSE Loop("Ok", "", operands, operators, cx)

RECURSIVE left_to_right_loop(_, _, _, _)
\* while operators.len() > 1 { ... }
left_to_right_loop(operands, operators, base_name, cx) ==
    LET again(r) == IF r.kind # "Ok" THEN r
                    ELSE left_to_right_loop(r.operands, r.operators, base_name, r.cx)
    IN  IF Len(operators) > 1
        THEN again(reduce_at(1, operands, operators, base_name, cx))
        ELSE Loop("Ok", "", operands, operators, cx)

\* Lines 1066-1084: the operand (and, for a part "operator operand", the
\* implicit zero and the operator) the first part contributes.
first_part_lists(part) ==
    LET first_parts == IF part.one.tag = "String" THEN splitn2(part.one.text)
                       ELSE <<>>
    IN  IF Len(first_parts) = 2
        THEN [operands |-> << <<"0">>, first_parts[2] >>,
              operators |-> << first_parts[1] >>]
        ELSE [operands |-> << expression_to_string(part) >>, operators |-> <<>>]

RECURSIVE remaining_part_lists(_, _, _)
\* Lines 1087-1095: each later part "operator operand" adds one operator and
\* one operand; a part of any other form adds nothing.
remaining_part_lists(parts, i, lists) ==
    IF i > Len(parts) THEN lists
    ELSE LET part_split == IF parts[i].one.tag = "String"
                           THEN splitn2(parts[i].one.text) ELSE <<>>
         IN  remaining_part_lists(parts, i + 1,
                 IF Len(part_split) = 2
                 THEN [operands |-> Append(lists.operands, part_split[2]),
                       operators |-> Append(lists.operators, part_split[1])]
                 ELSE lists)

\* Lines 1043-1060: a single part; a part "operator operand" whose operator
\* is arithmetic becomes `0 operator operand`.
single_part_expression(single_part) ==
    LET part_split == IF single_part.one.tag = "String"
                      THEN splitn2(single_part.one.text) ELSE <<>>
        op == IF Len(part_split) = 2 THEN string_to_arithmetic(part_split[1])
              ELSE None
    IN  IF op # None
        THEN create_binary_expression(FlatVariable("Number", <<"0">>), op[1],
                                      string_to_variable(part_split[2]))
        ELSE single_part

\* Lines 1166-1188: the last operation is returned, not named.
final_operation(rest) ==
    LET op == string_to_arithmetic(rest.operators[1])
    IN  IF rest.kind # "Ok" THEN Err(rest.err, rest.cx)
        ELSE IF Len(rest.operators) = 1
        THEN IF op = None THEN Err("Unknown operator", rest.cx)
             ELSE Ok(create_binary_expression(
                         string_to_variable(rest.operands[1]), op[1],
                         string_to_variable(rest.operands[2])), rest.cx)
        ELSE Ok(create_variable_expression(
                    FlatVariable("Identifier", rest.operands[1])), rest.cx)

process_expression_parts(parts, base_name, cx) ==
    LET low(high) == IF high.kind # "Ok" THEN Err(high.err, high.cx)
                     ELSE final_operation(left_to_right_loop(high.operands, high.operators, base_name, high.cx))
        reduce(lists) == low(high_precedence_loop(lists.operands, lists.operators, base_name, cx))
    IN  IF Len(parts) < 2
        THEN IF Len(parts) = 0
             THEN Panic("called Option::unwrap() on a None value", cx)
             ELSE Ok(single_part_expression(parts[1]), cx)
        ELSE reduce(remaining_part_lists(parts, 2, first_part_lists(parts[1])))

(***************************************************************************)
(* The traversal of one expression (src/src/flatten.rs:350-1033).          *)
(* Every operator takes the node, the base name of the temporaries, the    *)
(* context cx = [chain, counter] and force_call_extraction.                *)
(***************************************************************************)

children_of_kind(node, kind) == SelectSeq(node.children, LAMBDA c : c.kind = kind)

RECURSIVE collect_from(_, _, _, _, _, _)
RECURSIVE section_children(_, _, _, _, _, _, _)
RECURSIVE process_expression_section(_, _, _, _)
RECURSIVE variable_children(_, _, _, _, _)
RECURSIVE prioritize_children(_, _, _, _, _, _)
RECURSIVE process_identifier_chain(_, _, _, _)
RECURSIVE suffix_parts_from(_, _, _, _, _, _)
RECURSIVE process_identifier_part_with_calls(_, _, _, _)
RECURSIVE process_call_with_arguments(_, _, _, _)
RECURSIVE call_children(_, _, _, _, _, _, _)
RECURSIVE process_call_argument(_, _, _)

\* collect_expression_sections (lines 351-376): the parts of the
\* expression_section children, in order.
collect_from(node, i, parts, base_name, cx, force_call_extraction) ==
    LET next(r) == IF Fails(r) THEN r
                   ELSE collect_from(node, i + 1, Append(parts, r.val[1]), base_name, r.cx, force_call_extraction)
    IN  IF i > Len(node.children) THEN Ok(parts, cx)
        ELSE IF node.children[i].kind # "expression_section"
        THEN collect_from(node, i + 1, parts, base_name, cx, force_call_extraction)
        ELSE next(process_expression_section(node.children[i], base_name, cx, force_call_extraction))

collect_expression_sections(node, base_name, cx, force_call_extraction) ==
    collect_from(node, 1, <<>>, base_name, cx, force_call_extraction)

\* has_call_in_identifier (lines 778-788)
has_call_in_identifier(identifier_node) ==
    \E i \in 1..Len(identifier_node.children) :
        identifier_node.children[i].kind = "call"

\* has_nested_calls_in_single_identifier (lines 791-799)
has_nested_calls_in_single_identifier(identifier_node) ==
    contains(identifier_node.text, <<")", "(">>)

\* process_nested_call (lines 802-841): j()() becomes j_1 : j(); j_1()
process_nested_call(identifier_node, base_name, cx) ==
    LET id_text == identifier_node.text
        split_pos == find(id_text, <<")", "(">>)
        first_part == SubSeq(id_text, 1, split_pos)
        second_part == SubSeq(id_text, split_pos + 1, Len(id_text))
        temporary_name == temporary_name_of(base_name, cx.counter)
    IN  IF split_pos # 0
        THEN Ok(create_variable_expression(
                    FlatVariable("Identifier", temporary_name \o second_part)),
                push_statement(next_counter(cx),
                    temporary_statement(temporary_name,
                        create_variable_expression(
                            FlatVariable("Identifier", first_part)))))
        ELSE Ok(create_variable_expression(FlatVariable("Identifier", id_text)), cx)

\* process_identifier_part_with_calls (lines 844-866)
process_identifier_part_with_calls(identifier_node, base_name, cx, force) ==
    IF has_call_in_identifier(identifier_node)
    THEN process_call_with_arguments(identifier_node, base_name, cx, force)
    ELSE Ok(identifier_node.text, cx)

\* process_call_node (lines 897-951), its loop over the call's children.
call_children(call_node, i, call_identifier, processed_args, found_identifier, base_name, cx) ==
    LET with_identifier(r) ==
            IF Fails(r) THEN r
            ELSE call_children(call_node, i + 1, r.val[1], processed_args, TRUE, base_name, r.cx)
        with_argument(r) ==
            IF Fails(r) THEN r
            ELSE call_children(call_node, i + 1, call_identifier, Append(processed_args, r.val[1]),
                               found_identifier, base_name, r.cx)
    IN  IF i > Len(call_node.children)
        THEN IF ~found_identifier THEN Err("Call without identifier", cx)
             ELSE IF Len(processed_args) = 0
             THEN Ok(call_identifier \o <<"(", ")">>, cx)
             ELSE Ok(call_identifier \o <<"(">> \o join(processed_args, <<",", " ">>)
                     \o <<")">>, cx)
        ELSE IF call_node.children[i].kind = "identifier"
        THEN with_identifier(process_identifier_part_with_calls(call_node.children[i], base_name, cx, TRUE))
        ELSE IF call_node.children[i].kind = "expression"
        THEN with_argument(process_call_argument(call_node.children[i], base_name, cx))
        ELSE call_children(call_node, i + 1, call_identifier, processed_args, found_identifier, base_name, cx)

process_call_node(call_node, base_name, cx) ==
    call_children(call_node, 1, <<>>, <<>>, FALSE, base_name, cx)

\* process_call_with_arguments (lines 869-894)
process_call_with_arguments(identifier_node, base_name, cx, force) ==
    IF Len(children_of_kind(identifier_node, "call")) > 0
    THEN process_call_node(children_of_kind(identifier_node, "call")[1], base_name, cx)
    ELSE Ok(identifier_node.text, cx)

\* Lines 1000-1031: `name : expression` with the next temporary name; the
\* value is the name.
named_argument(f, base_name) ==
    IF Fails(f) THEN f
    ELSE Ok(temporary_name_of(base_name, f.cx.counter),
            push_statement(next_counter(f.cx),
                temporary_statement(temporary_name_of(base_name, f.cx.counter), f.val[1])))

\* process_call_argument (lines 954-1033)
process_call_argument(expression_node, base_name, cx) ==
    LET single(arg_expr, cx1) ==
            IF arg_expr.one.tag = "Identifier"
            THEN IF contains(arg_expr.one.text, <<"(">>) /\ contains(arg_expr.one.text, <<")">>)
                 THEN named_argument(Ok(arg_expr, cx1), base_name)
                 ELSE Ok(arg_expr.one.text, cx1)
            ELSE Ok(expression_to_string_simple(arg_expr), cx1)
        after(c) ==
            IF Fails(c) THEN c
            ELSE IF Len(c.val[1]) = 0 THEN Err("Empty expression in call argument", c.cx)
            ELSE IF Len(c.val[1]) = 1 THEN single(c.val[1][1], c.cx)
            ELSE named_argument(process_expression_parts(c.val[1], base_name, c.cx), base_name)
    IN  after(collect_expression_sections(expression_node, base_name, cx, TRUE))

\* Lines 699-711: the parts of the chain after the extracted call.
suffix_parts_from(remaining_parts, i, suffix_parts, base_name, cx, force) ==
    LET next(r) == IF Fails(r) THEN r
                   ELSE suffix_parts_from(remaining_parts, i + 1, Append(suffix_parts, r.val[1]), base_name, r.cx, force)
    IN  IF i > Len(remaining_parts) THEN Ok(suffix_parts, cx)
        ELSE next(process_identifier_part_with_calls(remaining_parts[i], base_name, cx, force))

\* The 1-based position of the first identifier of the chain with a call, 0 if none.
first_call_index(chain_parts) ==
    LET hits == {i \in 1..Len(chain_parts) : has_call_in_identifier(chain_parts[i])}
    IN  IF hits = {} THEN 0 ELSE CHOOSE i \in hits : \A j \in hits : i <= j

\* Lines 653-690 and 750-766: `temporary_name : call_expression`; the value
\* is the temporary as an identifier.
extracted_call(temporary_name, call_expression, cx) ==
    Ok(create_variable_expression(FlatVariable("Identifier", temporary_name)),
       push_statement(cx,
           temporary_statement(temporary_name,
               create_variable_expression(FlatVariable("Identifier", call_expression)))))

\* process_identifier_chain (lines 618-775)
process_identifier_chain(node, base_name, cx, force_call_extraction) ==
    LET chain_parts == children_of_kind(node, "identifier")
        call_index == first_call_index(chain_parts)
        temporary_name == temporary_name_of(base_name, cx.counter)
        with_suffix(sfx) ==
            IF Fails(sfx) THEN sfx
            ELSE Ok(create_variable_expression(
                        FlatVariable("Identifier", temporary_name \o <<".">> \o join(sfx.val[1], <<".">>))),
                    sfx.cx)
        in_chain(p) ==
            IF Fails(p) THEN p
            ELSE IF call_index = Len(chain_parts)
            THEN extracted_call(temporary_name,
                     join(Append([k \in 1..(call_index - 1) |-> chain_parts[k].text], p.val[1]), <<".">>), p.cx)
            ELSE with_suffix(suffix_parts_from(SubSeq(chain_parts, call_index + 1, Len(chain_parts)), 1, <<>>, base_name,
                     extracted_call(temporary_name,
                         join(Append([k \in 1..(call_index - 1) |-> chain_parts[k].text], p.val[1]), <<".">>), p.cx).cx,
                     force_call_extraction))
        forced(p) ==
            IF Fails(p) THEN p
            ELSE extracted_call(temporary_name_of(base_name, p.cx.counter), p.val[1], next_counter(p.cx))
    IN  IF Len(chain_parts) = 0 THEN Err("Empty identifier chain", cx)
        ELSE IF Len(chain_parts) > 1
        THEN IF call_index # 0
             THEN in_chain(process_call_with_arguments(chain_parts[call_index], base_name, next_counter(cx), force_call_extraction))
             ELSE Ok(create_variable_expression(FlatVariable("Identifier", node.text)), cx)
        ELSE IF has_nested_calls_in_single_identifier(chain_parts[1])
        THEN process_nested_call(chain_parts[1], base_name, cx)
        ELSE IF force_call_extraction /\ has_call_in_identifier(chain_parts[1])
        THEN forced(process_call_with_arguments(chain_parts[1], base_name, cx, force_call_extraction))
        ELSE Ok(create_variable_expression(FlatVariable("Identifier", node.text)), cx)

\* Lines 595-606: `temporary_name : flattened_inner`; the value is the
\* temporary as an identifier.
named_inner(f, temporary_name) ==
    IF Fails(f) THEN f
    ELSE Ok(create_variable_expression(FlatVariable("Identifier", temporary_name)),
            push_statement(f.cx, temporary_statement(temporary_name, f.val[1])))

\* process_variable (lines 529-615), the prioritize branch's loop over the
\* children of the prioritize node (lines 569-608).  "NotFound": the loop
\* ended without an expression child, and the outer loop goes on.
prioritize_children(child, j, temporary_name, base_name, cx, force) ==
    LET inner(c) ==
            IF Fails(c) THEN c
            ELSE IF Len(c.val[1]) = 1 THEN named_inner(Ok(c.val[1][1], c.cx), temporary_name)
            ELSE named_inner(process_expression_parts(c.val[1], base_name, c.cx), temporary_name)
    IN  IF j > Len(child.children)
        THEN [kind |-> "NotFound", val |-> <<>>, err |-> "", cx |-> cx]
        ELSE IF child.children[j].kind # "expression"
        THEN prioritize_children(child, j + 1, temporary_name, base_name, cx, force)
        ELSE inner(collect_expression_sections(child.children[j], base_name, cx, TRUE))

\* process_variable (lines 529-615), its loop over the children of the node.
variable_children(node, i, base_name, cx, force) ==
    LET bracket(r) == IF r.kind = "NotFound"
                      THEN variable_children(node, i + 1, base_name, r.cx, force)
                      ELSE r
    IN  IF i > Len(node.children) THEN Err("Unknown variable type", cx)
        ELSE IF node.children[i].kind = "number"
        THEN Ok(create_variable_expression(FlatVariable("Number", node.children[i].text)), cx)
        ELSE IF node.children[i].kind = "identifier_chain"
        THEN process_identifier_chain(node.children[i], base_name, cx, force)
        ELSE IF node.children[i].kind = "string"
        THEN Ok(create_variable_expression(FlatVariable("String", node.children[i].text)), cx)
        ELSE IF node.children[i].kind = "prioritize"
        THEN bracket(prioritize_children(node.children[i], 1, temporary_name_of(base_name, cx.counter),
                                         base_name, next_counter(cx), force))
        ELSE variable_children(node, i + 1, base_name, cx, force)

process_variable(node, base_name, cx, force) ==
    variable_children(node, 1, base_name, cx, force)

\* process_expression_section (lines 391-410): the loop over the children.
\* The value is [operators, operand].
section_children(node, i, operators, operand, base_name, cx, force) ==
    LET with_operand(r) ==
            IF Fails(r) THEN r
            ELSE section_children(node, i + 1, operators, Some(r.val[1]), base_name, r.cx, force)
    IN  IF i > Len(node.children)
        THEN Ok([operators |-> operators, operand |-> operand], cx)
        ELSE IF node.children[i].kind = "arithmetic"
        THEN section_children(node, i + 1, Append(operators, node.children[i].text), operand, base_name, cx, force)
        ELSE IF node.children[i].kind = "variable"
        THEN with_operand(process_variable(node.children[i], base_name, cx, force))
        ELSE section_children(node, i + 1, operators, operand, base_name, cx, force)

\* `0 operator operand` (lines 433-444, 466-477, 484-495).
zero_operation(operator, operand_str, cx) ==
    LET op == string_to_arithmetic(operator)
    IN  IF op = None THEN Err("Unknown operator", cx)
        ELSE Ok(create_binary_expression(FlatVariable("Number", <<"0">>), op[1],
                                         string_to_variable(operand_str)), cx)

RECURSIVE unary_chain(_, _, _, _, _)
\* Lines 452-481: all but the last of the reversed unary operators, each
\* emitted as a temporary statement.  The value is current_operand.
unary_chain(operators_rev, i, current_operand, base_name, cx) ==
    LET next(z) ==
            IF Fails(z) THEN z
            ELSE unary_chain(operators_rev, i + 1, temporary_name_of(base_name, cx.counter), base_name,
                     push_statement(z.cx, temporary_statement(temporary_name_of(base_name, cx.counter), z.val[1])))
    IN  IF i >= Len(operators_rev) THEN Ok(current_operand, cx)
        ELSE next(zero_operation(operators_rev[i], current_operand, next_counter(cx)))

reverse(v) == [i \in 1..Len(v) |-> v[Len(v) + 1 - i]]

\* Lines 420-511: an operator followed by unary operators.
section_with_unary(operators, operand, base_name, cx) ==
    LET temporary_name == temporary_name_of(base_name, cx.counter)
        operators_rev == reverse(Tail(operators))
        named(u) ==
            IF Fails(u) THEN u
            ELSE Ok(create_variable_expression(
                        FlatVariable("String", operators[1] \o <<" ">> \o temporary_name)),
                    push_statement(u.cx, temporary_statement(temporary_name, u.val[1])))
        last(ch) ==
            IF Fails(ch) THEN ch
            ELSE zero_operation(operators_rev[Len(operators_rev)], ch.val[1], ch.cx)
    IN  IF Len(operators) = 2
        THEN named(zero_operation(operators[2], expression_to_string(operand), next_counter(cx)))
        ELSE named(last(unary_chain(operators_rev, 1, expression_to_string(operand), base_name, next_counter(cx))))

\* process_expression_section (lines 379-521)
process_expression_section(node, base_name, cx, force) ==
    LET after(s) ==
            IF Fails(s) THEN s
            ELSE IF Len(s.val[1].operators) = 0
            THEN IF s.val[1].operand = None
                 THEN Err("No operand found in expression section", s.cx)
                 ELSE Ok(s.val[1].operand[1], s.cx)
            ELSE IF s.val[1].operand = None
            THEN Panic("called Option::unwrap() on a None value", s.cx)
            ELSE IF Len(s.val[1].operators) > 1
            THEN section_with_unary(s.val[1].operators, s.val[1].operand[1], base_name, s.cx)
            ELSE Ok(create_variable_expression(
                        FlatVariable("String",
                            s.val[1].operators[1] \o <<" ">>
                            \o expression_to_string_simple(s.val[1].operand[1]))), s.cx)
    IN  after(section_children(node, 1, <<>>, None, base_name, cx, force))

(***************************************************************************)
(* Statements, chains and the root (src/src/flatten.rs:197-348).           *)
(***************************************************************************)

Temporary == <<"t", "e", "m", "p", "o", "r", "a", "r", "y">>

\* flatten_expression (lines 300-348): the value is the flattened expression
\* of the statement; the temporaries are appended to the chain of cx.
flatten_expression(node, chain, statement) ==
    LET name == IF statement.definition # None
                THEN statement.definition[1].name ELSE Temporary
        after(c) == IF Fails(c) THEN c
                    ELSE process_expression_parts(c.val[1], name, c.cx)
    IN  after(collect_expression_sections(node, name, [chain |-> chain, counter |-> 1],
                  Len(children_of_kind(node, "expression_section")) > 1))

RECURSIVE definition_children(_, _, _)
\* flatten_definition (lines 265-298)
definition_children(node, i, definition) ==
    IF i > Len(node.children) THEN definition
    ELSE LET child == node.children[i]
         IN  definition_children(node, i + 1,
                 IF child.kind = "identifier_chain"
                 THEN [definition EXCEPT !.name = child.text]
                 ELSE IF child.kind = "definition_operation"
                 THEN IF child.text = <<":">>
                      THEN [definition EXCEPT !.operation = "Constant"]
                      ELSE IF child.text = <<"=">>
                      THEN [definition EXCEPT !.operation = "Variable"]
                      ELSE definition
                 ELSE definition)

flatten_definition(node) ==
    definition_children(node, 1, FlatDefinition(<<>>, "Constant"))

RECURSIVE statement_children(_, _, _, _)
\* flatten_statement (lines 238-263): the value is the chain with the
\* temporaries of the statement and then the statement itself appended.
statement_children(node, i, chain, statement) ==
    LET with_expression(e) ==
            IF Fails(e) THEN e
            ELSE statement_children(node, i + 1, e.cx.chain, [statement EXCEPT !.expression = Some(e.val[1])])
    IN  IF i > Len(node.children)
        THEN Ok(Append(chain, statement), [chain |-> <<>>, counter |-> 0])
        ELSE IF node.children[i].kind = "definition"
        THEN statement_children(node, i + 1, chain,
                 [statement EXCEPT !.definition = Some(flatten_definition(node.children[i]))])
        ELSE IF node.children[i].kind = "expression"
        THEN with_expression(flatten_expression(node.children[i], chain, statement))
        ELSE statement_children(node, i + 1, chain, statement)

flatten_statement(node, chain) ==
    statement_children(node, 1, chain, FlatStatement(None, None))

RECURSIVE chain_children(_, _, _)
\* flatten_statement_chain (lines 218-236), its loop over the statements.
chain_children(node, i, chain) ==
    LET next(r) == IF Fails(r) THEN r ELSE chain_children(node, i + 1, r.val[1])
    IN  IF i > Len(node.children) THEN Ok(chain, [chain |-> <<>>, counter |-> 0])
        ELSE IF node.children[i].kind # "statement"
        THEN chain_children(node, i + 1, chain)
        ELSE next(flatten_statement(node.children[i], chain))

\* The value is the finished FlatStatementChain.
flatten_statement_chain(node) ==
    LET done(r) == IF Fails(r) THEN r ELSE Ok([statements |-> r.val[1]], r.cx)
    IN  done(chain_children(node, 1, <<>>))

\* What a call returns to its caller: Ok(root), Err(error), or a panic that
\* unwinds through the caller.  Only Ok carries a root.
ResultOk(root) == [kind |-> "Ok", root |-> Some(root), error |-> None]

ResultErr(type, detail) ==
    [kind |-> "Err", root |-> None, error |-> Some([type |-> type, detail |-> detail])]

ResultPanic(detail) ==
    [kind |-> "Panic", root |-> None, error |-> Some([type |-> "panic", detail |-> detail])]

RECURSIVE root_children(_, _, _)
\* flatten_node (lines 202-216), its loop over the children of the root node.
root_children(node, i, root) ==
    LET next(r) ==
            IF r.kind = "Err" THEN ResultErr("FlattenError", r.err)
            ELSE IF r.kind = "Panic" THEN ResultPanic(r.err)
            ELSE root_children(node, i + 1, [root EXCEPT !.statement_chains = Append(@, r.val[1])])
    IN  IF i > Len(node.children) THEN ResultOk(root)
        ELSE IF node.children[i].kind # "statement_chain"
        THEN root_children(node, i + 1, root)
        ELSE next(flatten_statement_chain(node.children[i]))

flatten_node(node) ==
    IF node.kind = "source_file" \/ node.kind = "source"
    THEN root_children(node, 1, [statement_chains |-> <<>>])
    ELSE ResultOk([statement_chains |-> <<>>])

\* flatten_tree (lines 197-200)
flatten_tree(tree) == flatten_node(tree)

(***************************************************************************)
(* Syntax trees.  The constructors build a node with the source text of    *)
(* its byte range; anonymous tokens (brackets, dots, semicolons) are not   *)
(* kept as children, since every traversal skips them.                     *)
(***************************************************************************)

Node(kind, text, children) == [kind |-> kind, text |-> text, children |-> children]

texts(nodes) == [i \in 1..Len(nodes) |-> nodes[i].text]

number(text) == Node("number", text, <<>>)

string(text) == Node("string", text, <<>>)

arithmetic(text) == Node("arithmetic", text, <<>>)

definition_operation(text) == Node("definition_operation", text, <<>>)

identifier(text) == Node("identifier", text, <<>>)

\* callee(arguments): a call node, and the identifier node that holds it.
call(callee, arguments) ==
    Node("call", callee.text \o <<"(">> \o join(texts(arguments), <<",", " ">>) \o <<")">>, <<callee>> \o arguments)

identifier_call(callee, arguments) ==
    LET c == call(callee, arguments) IN Node("identifier", c.text, <<c>>)

identifier_chain(identifiers) ==
    Node("identifier_chain", join(texts(identifiers), <<".">>), identifiers)

\* [expression]; with no child it is the empty bracket [].
prioritize(children) ==
    Node("prioritize", <<"[">> \o join(texts(children), <<>>) \o <<"]">>, children)

\* A variable node holding the given children (one, in a well-formed tree).
variable(children) == Node("variable", join(texts(children), <<>>), children)

expression_section(children) ==
    Node("expression_section", join(texts(children), <<" ">>), children)

expression(sections) == Node("expression", join(texts(sections), <<" ">>), sections)

definition(children) == Node("definition", join(texts(children), <<" ">>), children)

statement(children) == Node("statement", join(texts(children), <<" ">>) \o <<";">>, children)

statement_chain(statements) ==
    Node("statement_chain", join(texts(statements), <<" ">>), statements)

source_file(children) == Node("source_file", join(texts(children), <<" ">>), children)

source(children) == Node("source", <<"{">> \o join(texts(children), <<" ">>) \o <<"}">>, children)

(***************************************************************************)
(* Validation (validate.rs).  A validator returns Valid or the variant of  *)
(* ValidationError it stops with; a loop over children with `?` stops at   *)
(* the first child that fails.                                             *)
(***************************************************************************)

Valid == "Ok"

first_error(results) ==
    IF \E i \in 1..Len(results) : results[i] # Valid
    THEN results[CHOOSE i \in 1..Len(results) : results[i] # Valid /\ \A j \in 1..(i - 1) : results[j] = Valid]
    ELSE Valid

LowerChars == {"a","b","c","d","e","f","g","h","i","j","k","l","m","n","o","p","q","r","s","t","u","v","w","x","y","z"}

UpperChars == {"A","B","C","D","E","F","G","H","I","J","K","L","M","N","O","P","Q","R","S","T","U","V","W","X","Y","Z"}

is_alphabetic(c) == c \in LowerChars \cup UpperChars

is_ascii_hexdigit(c) == is_ascii_digit(c) \/ c \in {"a","b","c","d","e","f","A","B","C","D","E","F"}

\* The digits after the two-character radix prefix, all in the given class.
digits_of(number_text) == SubSeq(number_text, 3, Len(number_text))

validate_binary_number(number_text) ==
    IF Len(number_text) <= 2 THEN "InvalidNumberFormat"
    ELSE IF digits_of(number_text) = <<>> \/ ~(\A i \in 3..Len(number_text) : number_text[i] \in {"0", "1"})
         THEN "InvalidNumberFormat" ELSE Valid

validate_octal_number(number_text) ==
    IF Len(number_text) <= 2 THEN "InvalidNumberFormat"
    ELSE IF digits_of(number_text) = <<>> \/ ~(\A i \in 3..Len(number_text) : number_text[i] \in {"0","1","2","3","4","5","6","7"})
         THEN "InvalidNumberFormat" ELSE Valid

validate_decimal_number(number_text) ==
    IF Len(number_text) <= 2 THEN "InvalidNumberFormat"
    ELSE IF digits_of(number_text) = <<>> \/ ~(\A i \in 3..Len(number_text) : is_ascii_digit(number_text[i]))
         THEN "InvalidNumberFormat" ELSE Valid

validate_hex_number(number_text) ==
    IF Len(number_text) <= 2 THEN "InvalidNumberFormat"
    ELSE IF digits_of(number_text) = <<>> \/ ~(\A i \in 3..Len(number_text) : is_ascii_hexdigit(number_text[i]))
         THEN "InvalidNumberFormat" ELSE Valid

validate_number_format(number_text) ==
    IF number_text = <<"0">> THEN Valid
    ELSE IF starts_with(number_text, <<"0","b">>) \/ starts_with(number_text, <<"0","B">>)
         THEN validate_binary_number(number_text)
    ELSE IF starts_with(number_text, <<"0","o">>) \/ starts_with(number_text, <<"0","O">>)
         THEN validate_octal_number(number_text)
    ELSE IF starts_with(number_text, <<"0","d">>) \/ starts_with(number_text, <<"0","D">>)
         THEN validate_decimal_number(number_text)
    ELSE IF starts_with(number_text, <<"0","x">>) \/ starts_with(number_text, <<"0","X">>)
         THEN validate_hex_number(number_text)
    ELSE IF starts_with(number_text, <<"0">>) /\ Len(number_text) > 1
         THEN "InvalidNumberFormat"
    ELSE Valid

validate_string(string_text) ==
    IF ~starts_with(string_text, <<"\"">>) \/ ~ends_with(string_text, <<"\"">>)
    THEN "MalformedFunctionCall" ELSE Valid

validate_arithmetic_operator(op) ==
    IF op \in {<<"+">>, <<"-">>, <<"*">>, <<"/">>, <<"%">>} THEN Valid
    ELSE "IncompleteOperatorSequence"

validate_identifier_as_number(identifier_text) ==
    IF \E p \in {<<"0","x">>, <<"0","X">>, <<"0","b">>, <<"0","B">>, <<"0","o">>, <<"0","O">>, <<"0","d">>, <<"0","D">>} : starts_with(identifier_text, p)
    THEN "InvalidNumberFormat"
    ELSE IF starts_with(identifier_text, <<"0">>) /\ Len(identifier_text) > 1
            /\ is_alphabetic(identifier_text[2])
            /\ identifier_text[2] \notin {"b","o","x","B","O","X"}
         THEN "InvalidNumberFormat"
    ELSE Valid

RECURSIVE validate_expression(_)
RECURSIVE validate_identifier_chain(_)

validate_prioritize(node) ==
    LET results == [i \in 1..Len(node.children) |->
                      IF node.children[i].kind = "expression"
                      THEN validate_expression(node.children[i]) ELSE Valid]
        has_expression == \E i \in 1..Len(node.children) : node.children[i].kind = "expression"
    IN  IF first_error(results) # Valid THEN first_error(results)
        ELSE IF ~has_expression THEN "EmptyExpression"
        ELSE Valid

validate_variable(node) ==
    first_error([i \in 1..Len(node.children) |->
        LET child == node.children[i]
        IN  CASE child.kind = "number" -> validate_number_format(child.text)
              [] child.kind = "identifier_chain" -> validate_identifier_chain(child)
              [] child.kind = "string" -> validate_string(child.text)
              [] child.kind = "prioritize" -> validate_prioritize(child)
              [] OTHER -> Valid])

validate_expression_section(node) ==
    LET results == [i \in 1..Len(node.children) |->
                      LET child == node.children[i]
                      IN  CASE child.kind = "arithmetic" -> validate_arithmetic_operator(child.text)
                            [] child.kind = "variable" -> validate_variable(child)
                            [] OTHER -> Valid]
        operator_count == Cardinality({i \in 1..Len(node.children) : node.children[i].kind = "arithmetic"})
        has_variable == \E i \in 1..Len(node.children) : node.children[i].kind = "variable"
    IN  IF first_error(results) # Valid THEN first_error(results)
        ELSE IF operator_count > 0 /\ ~has_variable THEN "IncompleteOperatorSequence"
        ELSE Valid

validate_expression(node) ==
    LET results == [i \in 1..Len(node.children) |->
                      IF node.children[i].kind = "expression_section"
                      THEN validate_expression_section(node.children[i]) ELSE Valid]
        has_content == \E i \in 1..Len(node.children) : node.children[i].kind = "expression_section"
    IN  IF first_error(results) # Valid THEN first_error(results)
        ELSE IF ~has_content THEN "EmptyExpression"
        ELSE Valid

validate_function_call(node) ==
    IF contains(node.text, <<"(">>) /\ ~contains(node.text, <<")">>)
    THEN "MalformedFunctionCall"
    ELSE first_error([i \in 1..Len(node.children) |->
            IF node.children[i].kind = "expression"
            THEN validate_expression(node.children[i]) ELSE Valid])

validate_identifier(node) ==
    IF validate_identifier_as_number(node.text) # Valid
    THEN validate_identifier_as_number(node.text)
    ELSE first_error([i \in 1..Len(node.children) |->
            IF node.children[i].kind = "call"
            THEN validate_function_call(node.children[i]) ELSE Valid])

validate_identifier_chain(node) ==
    IF ends_with(node.text, <<".">>) THEN "InvalidIdentifierChain"
    ELSE IF starts_with(node.text, <<".">>) THEN "InvalidIdentifierChain"
    ELSE first_error([i \in 1..Len(node.children) |->
            IF node.children[i].kind = "identifier"
            THEN validate_identifier(node.children[i]) ELSE Valid])

validate_definition(node) ==
    LET results == [i \in 1..Len(node.children) |->
                      IF node.children[i].kind = "identifier_chain"
                      THEN validate_identifier_chain(node.children[i]) ELSE Valid]
        has_name == \E i \in 1..Len(node.children) : node.children[i].kind = "identifier_chain"
        has_operation == \E i \in 1..Len(node.children) : node.children[i].kind = "definition_operation"
    IN  IF first_error(results) # Valid THEN first_error(results)
        ELSE IF ~has_name \/ ~has_operation THEN "MalformedFunctionCall"
        ELSE Valid

validate_statement(node) ==
    LET results == [i \in 1..Len(node.children) |->
                      LET child == node.children[i]
                      IN  CASE child.kind = "definition" -> validate_definition(child)
                            [] child.kind = "expression" -> validate_expression(child)
                            [] OTHER -> Valid]
        has_expression == \E i \in 1..Len(node.children) : node.children[i].kind = "expression"
    IN  IF first_error(results) # Valid THEN first_error(results)
        ELSE IF ~has_expression THEN "EmptyExpression"
        ELSE Valid

validate_statement_chain(node) ==
    first_error([i \in 1..Len(node.children) |->
        IF node.children[i].kind = "statement"
        THEN validate_statement(node.children[i]) ELSE Valid])

validate_node(node) ==
    IF node.kind = "source" THEN "UnsupportedSourceBlock"
    ELSE IF node.kind = "source_file"
    THEN first_error([i \in 1..Len(node.children) |->
            LET child == node.children[i]
            IN  CASE child.kind = "statement_chain" -> validate_statement_chain(child)
                  [] child.kind = "source" -> "UnsupportedSourceBlock"
                  [] OTHER -> Valid])
    ELSE Valid

\* Result<(), Error>: the validation error wrapped as Error::ValidationError.
validate_tree(tree) ==
    IF validate_node(tree) = Valid
    THEN [kind |-> "Ok", error |-> None]
    ELSE [kind |-> "Err", error |-> Some([type |-> "ValidationError", detail |-> validate_node(tree)])]

(***************************************************************************)
(* process_tree (lib.rs): validate, and flatten only what validated.  The  *)
(* stages that ran are kept beside the result.                             *)
(***************************************************************************)

process_tree_unvalidated(tree) ==
    [result |-> flatten_tree(tree), stages |-> <<"flatten">>]

process_tree(tree) ==
    LET validated == validate_tree(tree)
    IN  IF validated.kind = "Err"
        THEN [result |-> [kind |-> "Err", root |-> None, error |-> validated.error], stages |-> <<"validate">>]
        ELSE [result |-> flatten_tree(tree), stages |-> <<"validate", "flatten">>]

(***************************************************************************)
(* The trees the library is run on.  Bounds first, then the families of    *)
(* expressions: chains of binary operators, prefix operators, and the      *)
(* kinds of operand (literals, identifier chains, calls, brackets).        *)
(***************************************************************************)

MaxOperators == 3

MaxUnary == 2

MaxDepth == 1

MaxStatements == 2

Operators == {"+", "-", "*", "/", "%"}

OperandNames == <<"a", "b", "c", "d", "e", "h", "k", "m">>

name_chain(text) == identifier_chain(<<identifier(text)>>)

\* One section: its operators in order, then its operand.
section(operators, operand) ==
    expression_section([i \in 1..Len(operators) |-> arithmetic(<<operators[i]>>)] \o <<operand>>)

plain(v) == variable(<<v>>)

operand_at(i) == plain(name_chain(<<OperandNames[i]>>))

\* a op1 b op2 c ...: one operator per section, operands all different.
precedence_expression(ops) ==
    expression(<<section(<<>>, operand_at(1))>> \o [i \in 1..Len(ops) |-> section(<<ops[i]>>, operand_at(i + 1))])

OperatorSequences == UNION {[1..k -> Operators] : k \in 1..MaxOperators}

PrecedenceExpressions == {precedence_expression(ops) : ops \in OperatorSequences}

SequencesUpTo(S, lo, hi) == UNION {[1..k -> S] : k \in lo..hi}

UnaryOperands == {plain(number(<<"0", "d", "1">>)), plain(name_chain(<<"a">>)), plain(number(<<"0">>))}

\* A first section with prefix operators, alone or followed by a section whose
\* binary operator is followed by prefix operators.
UnaryExpressions ==
    LET firsts == {section(ops, v) : ops \in SequencesUpTo({"-", "+"}, 0, MaxUnary), v \in UnaryOperands}
        seconds == {section(<<op>> \o ops, v) : op \in {"+", "*"}, ops \in SequencesUpTo({"-"}, 0, MaxUnary),
                                                 v \in {plain(number(<<"0", "d", "2">>)), plain(name_chain(<<"b">>))}}
    IN  {expression(<<f>>) : f \in firsts} \cup {expression(<<f, g>>) : f \in firsts, g \in seconds}

simple(v) == expression(<<section(<<>>, v)>>)

infix(v, op, w) == expression(<<section(<<>>, v), section(<<op>>, w)>>)

Arguments ==
    { <<>>,
      <<simple(plain(name_chain(<<"a">>)))>>,
      <<simple(plain(number(<<"0", "d", "1">>))), simple(plain(name_chain(<<"b">>)))>>,
      <<infix(plain(name_chain(<<"a">>)), "+", plain(name_chain(<<"b">>)))>>,
      <<simple(plain(prioritize(<<>>)))>> }

Atoms ==
    { plain(number(<<"0", "d", "1">>)), plain(number(<<"0">>)), plain(number(<<"0", "x", "F">>)),
      plain(number(<<"0", "d">>)), plain(number(<<"0", "5">>)), plain(number(<<"5">>)),
      plain(name_chain(<<"a">>)), plain(name_chain(<<"0", "x", "1">>)),
      plain(identifier_chain(<<identifier(<<"a">>), identifier(<<"b">>)>>)),
      plain(string(<<"\"", "s", "\"">>)), plain(string(<<"\"", "s", " ", "t", "\"">>)),
      plain(string(<<"'", "s", "'">>)),
      variable(<<>>), plain(prioritize(<<>>)), plain(prioritize(<<expression(<<>>)>>)) }
    \cup { plain(identifier_chain(<<identifier_call(identifier(<<"f">>), args)>>)) : args \in Arguments }
    \cup { plain(identifier_chain(<<identifier(<<"a">>), identifier_call(identifier(<<"g">>), <<>>)>>)),
           plain(identifier_chain(<<identifier_call(identifier(<<"f">>), <<>>), identifier(<<"b">>)>>)),
           plain(identifier_chain(<<identifier_call(identifier_call(identifier(<<"j">>), <<>>), <<>>)>>)) }

RECURSIVE Operands(_)
\* Operands with at most depth levels of brackets around them.
Operands(depth) ==
    IF depth = 0 THEN Atoms
    ELSE Operands(depth - 1)
         \cup { plain(prioritize(<<simple(v)>>)) : v \in Operands(depth - 1) }
         \cup { plain(prioritize(<<infix(operand_at(3), "+", operand_at(4))>>)),
                plain(prioritize(<<infix(operand_at(3), "*", operand_at(4))>>)),
                plain(prioritize(<<expression(<<section(<<"-">>, operand_at(3))>>)>>)) }

OperandExpressions ==
    UNION { { simple(v), infix(v, "+", operand_at(2)), infix(operand_at(1), "*", v),
              expression(<<section(<<>>, operand_at(1)), section(<<"*">>, operand_at(2)), section(<<"+">>, v)>>) } :
            v \in Operands(MaxDepth) }

\* Sections that hold operators and no operand, or nothing the code knows.
BrokenExpressions ==
    { expression(<<section(<<>>, operand_at(1)), expression_section(<<arithmetic(<<"+">>)>>)>>),
      expression(<<expression_section(<<arithmetic(<<"-">>)>>)>>),
      expression(<<expression_section(<<>>)>>),
      expression(<<>>),
      infix(operand_at(1), "^", operand_at(2)) }

Expressions == PrecedenceExpressions \cup UnaryExpressions \cup OperandExpressions \cup BrokenExpressions

constant_definition(text) == definition(<<name_chain(text), definition_operation(<<":">>)>>)

\* x : e; for every expression of the families.
DefinedStatements == {statement(<<constant_definition(<<"x">>), e>>) : e \in Expressions}

\* The other shapes of statement, over a few expressions.
OtherStatements ==
    LET few == { infix(operand_at(1), "*", operand_at(2)),
                 expression(<<section(<<>>, operand_at(1)), section(<<"+">>, operand_at(2)), section(<<"*">>, operand_at(3))>>),
                 simple(plain(prioritize(<<simple(operand_at(1))>>))),
                 simple(plain(prioritize(<<>>))) }
    IN  {statement(<<e>>) : e \in few}
        \cup {statement(<<definition(<<name_chain(<<"y">>), definition_operation(<<"=">>)>>), e>>) : e \in few}
        \cup {statement(<<definition(<<name_chain(<<"y">>)>>), e>>) : e \in few}
        \cup {statement(<<constant_definition(<<"x">>)>>), statement(<<>>)}

ChainStatements ==
    { statement(<<constant_definition(<<"x">>), infix(operand_at(1), "+", operand_at(2))>>),
      statement(<<constant_definition(<<"x">>), expression(<<section(<<>>, operand_at(1)), section(<<"+">>, operand_at(2)), section(<<"*">>, operand_at(3))>>)>>),
      statement(<<constant_definition(<<"y">>), infix(plain(name_chain(<<"x">>)), "*", plain(prioritize(<<infix(operand_at(1), "-", operand_at(2))>>)))>>),
      statement(<<infix(plain(name_chain(<<"x">>)), "/", plain(number(<<"0", "d", "2">>)))>>),
      statement(<<expression(<<section(<<>>, operand_at(1)), section(<<"+">>, operand_at(2)), section(<<"*">>, operand_at(3))>>)>>),
      statement(<<constant_definition(<<"z">>), simple(plain(prioritize(<<>>)))>>) }

program(statements) == source_file(<<statement_chain(statements)>>)

Trees ==
    {program(<<st>>) : st \in DefinedStatements \cup OtherStatements}
    \cup {program(sts) : sts \in SequencesUpTo(ChainStatements, 2, MaxStatements)}
    \cup { source_file(<<>>), program(<<>>),
           source(<<statement_chain(<<statement(<<constant_definition(<<"x">>), simple(operand_at(1))>>)>>)>>),
           source_file(<<source(<<>>)>>),
           source_file(<<statement_chain(<<statement(<<constant_definition(<<"x">>), simple(operand_at(1))>>)>>),
                         statement_chain(<<statement(<<constant_definition(<<"x">>), simple(plain(prioritize(<<simple(operand_at(2))>>)))>>)>>)>>),
           source_file(<<statement_chain(<<statement(<<constant_definition(<<"x">>), simple(operand_at(1))>>)>>),
                         statement_chain(<<statement(<<constant_definition(<<"x">>), simple(plain(prioritize(<<>>)))>>)>>)>>),
           source_file(<<statement_chain(<<statement(<<constant_definition(<<"x">>), simple(operand_at(1))>>)>>),
                         source(<<>>)>>),
           program(<<statement(<<constant_definition(<<"x">>), simple(variable(<<source(<<>>)>>))>>)>>),
           program(<<statement(<<constant_definition(<<"x">>),
                                 infix(operand_at(1), "+",
                                       variable(<<source(<<statement_chain(<<statement(<<constant_definition(<<"y">>), simple(operand_at(2))>>)>>)>>)>>))>>)>>) }

(***************************************************************************)
(* State.  The library is called on one tree; the command-line program     *)
(* runs on a file or on the lines of standard input; a number token is     *)
(* validated and decoded; the pools of a root are filled by inserts.       *)
(***************************************************************************)

VARIABLES tree, validated, flattened, processed

VARIABLES path, output, stdin, stdout, stderr, exit_code, outcomes

VARIABLES number_text, format_result, number_value

VARIABLES numbers, strings, sources, builders, last_call, returned, calls

VARIABLES host_pc, regions, cpu, counts, slot, execute_result, runs, fd1

VARIABLES compiler, pending, compile_result, assigned, last_read

VARIABLES binary, offers, conversion

VARIABLES parse_tree, trace, flat, root_offer

library_vars == <<tree, validated, flattened, processed>>

main_vars == <<path, output, stdin, stdout, stderr, exit_code, outcomes>>

number_vars == <<number_text, format_result, number_value>>

builder_vars == <<numbers, strings, sources, builders, last_call, returned, calls>>

execute_vars == <<host_pc, regions, cpu, counts, slot, execute_result, runs, fd1>>

jit_vars == <<compiler, pending, compile_result, assigned, last_read>>

VARIABLES tac

tac_vars == <<tac>>

contract_vars == <<binary, offers, conversion, parse_tree, trace, flat, root_offer, tac_vars>>

machine_vars == <<execute_vars, jit_vars, contract_vars>>

vars == <<library_vars, main_vars, number_vars, builder_vars, machine_vars>>

NotCalled == [kind |-> "NotCalled", root |-> None, error |-> None]

library_idle ==
    /\ tree = source_file(<<>>)
    /\ validated = NotCalled /\ flattened = NotCalled
    /\ processed = [result |-> NotCalled, stages |-> <<>>]

main_idle ==
    /\ path = None /\ output = "Text" /\ stdin = <<>>
    /\ stdout = <<>> /\ stderr = <<>> /\ exit_code = None /\ outcomes = <<>>

number_idle == number_text = <<"0">> /\ format_result = "NotCalled" /\ number_value = None

builder_idle ==
    /\ numbers = <<>> /\ strings = <<>> /\ sources = <<>> /\ builders = <<>>
    /\ last_call = [op |-> "none"] /\ returned = None /\ calls = 0

Void == [interface_type |-> "Void", interface_data |-> 0]

\* execute.rs 8-10: a Coroutine is eight machine words; in the trampoline's
\* layout a scratch slot, then RBX, RBP, R12, R13, R14, R15, then RSP.
CoroutineFirstSlot(last) == <<last, 0, 0, 0, 0, 0, 0, 0>>

Coroutine(last) == <<0, 0, 0, 0, 0, 0, 0, last>>

RspSlot == 8

cpu_host == [control |-> "host", label |-> "none", rdi |-> "none", rsi |-> "none",
             rsp |-> "host_stack", old_saved |-> FALSE,
             registers |-> Coroutine(0), at_call |-> Coroutine(0),
             old |-> Coroutine(0), new |-> Coroutine(0),
             executable_map |-> 0, main |-> 0, stack_ptr |-> 0, stack_word |-> 0,
             entry |-> 0]

no_counts == [entries |-> 0, exits |-> 0, main_runs |-> 0, exit_label |-> "none"]

execute_idle ==
    /\ host_pc = "idle" /\ regions = {} /\ cpu = cpu_host /\ counts = no_counts
    /\ slot = Void /\ execute_result = None /\ runs = 0 /\ fd1 = 0

\* JITCompiler::new.  stack_memory holds the slots that were written; the
\* other slots of the 1024 keep the zero they were allocated with.
StackSlots == 1024

JITCompiler ==
    [code_buffer |-> <<>>, executable_memory |-> None, variables |-> <<>>,
     stack_offset |-> 0, stack_memory |-> <<>>, executions |-> 0]

jit_idle ==
    /\ compiler = JITCompiler /\ pending = <<>> /\ compile_result = None
    /\ assigned = <<>> /\ last_read = None

EmptyBinary == [one |-> None, two |-> None, operator |-> None]

\* No three-address code has been produced or run.
tac_none == [status |-> "idle", code |-> "", instructions |-> <<>>, pc |-> 0,
             a |-> 0, b |-> 0, temps |-> <<>>, reads |-> {}, labels |-> <<>>]

tac_idle == tac = tac_none

contract_idle ==
    /\ binary = EmptyBinary /\ offers = <<>> /\ conversion = None
    /\ parse_tree = None /\ trace = <<>> /\ flat = None /\ root_offer = None
    /\ tac_idle

machine_idle == execute_idle /\ jit_idle /\ contract_idle

(***************************************************************************)
(* The library: validate_tree, flatten_tree and process_tree on one tree.  *)
(***************************************************************************)

Init ==
    /\ tree \in Trees
    /\ validated = NotCalled /\ flattened = NotCalled
    /\ processed = [result |-> NotCalled, stages |-> <<>>]
    /\ main_idle /\ number_idle /\ builder_idle /\ machine_idle

ValidateTree ==
    /\ validated = NotCalled
    /\ validated' = [kind |-> validate_tree(tree).kind, root |-> None, error |-> validate_tree(tree).error]
    /\ UNCHANGED <<tree, flattened, processed, main_vars, number_vars, builder_vars, machine_vars>>

FlattenTree ==
    /\ flattened = NotCalled
    /\ flattened' = flatten_tree(tree)
    /\ UNCHANGED <<tree, validated, processed, main_vars, number_vars, builder_vars, machine_vars>>

ProcessTree ==
    /\ processed.result = NotCalled
    /\ processed' = process_tree(tree)
    /\ UNCHANGED <<tree, validated, flattened, main_vars, number_vars, builder_vars, machine_vars>>

Next == ValidateTree \/ FlattenTree \/ ProcessTree

Spec == Init /\ [][Next]_vars

(***************************************************************************)
(* Reading a flattened root: the chains of a result, the operand texts of  *)
(* a statement, and the temporaries an operand text names.  A temporary is *)
(* written base_N; no name in Trees is of that form.                       *)
(***************************************************************************)

WordChars == LowerChars \cup UpperChars \cup {DigitChars[i] : i \in 1..10} \cup {"_"}

is_word(text, p, q) ==
    /\ \A m \in p..q : text[m] \in WordChars
    /\ (p = 1 \/ text[p - 1] \notin WordChars)
    /\ (q = Len(text) \/ text[q + 1] \notin WordChars)

is_temporary_word(text, p, q) ==
    /\ is_word(text, p, q)
    /\ \E k \in (p + 1)..(q - 1) : text[k] = "_" /\ \A m \in (k + 1)..q : is_ascii_digit(text[m])

TemporaryWords(text) ==
    {SubSeq(text, p, q) : <<p, q>> \in {pq \in (1..Len(text)) \X (1..Len(text)) : pq[1] < pq[2] /\ is_temporary_word(text, pq[1], pq[2])}}

operand_texts(entry) ==
    IF entry.expression = None THEN {}
    ELSE {entry.expression[1].one.text} \cup {entry.expression[1].two[k].text : k \in 1..Len(entry.expression[1].two)}

statement_reads(entry) == UNION {TemporaryWords(t) : t \in operand_texts(entry)}

defines(entry, name) == entry.definition # None /\ entry.definition[1].name = name

chains_of(result) ==
    IF result.kind = "Ok" THEN {result.root[1].statement_chains[c].statements : c \in 1..Len(result.root[1].statement_chains)}
    ELSE {}

Results == {flattened, processed.result}

\* The position of the last entry before position i that defines name, 0 if none.
defined_before(statements, i, name) ==
    LET earlier == {j \in 1..(i - 1) : defines(statements[j], name)}
    IN  IF earlier = {} THEN 0 ELSE CHOOSE j \in earlier : \A k \in earlier : k <= j

(***************************************************************************)
(* C1: in every chain of every flattened root, each temporary that the     *)
(* entry at position i reads is defined by an entry at a position j < i of *)
(* the same chain.                                                         *)
(***************************************************************************)
C1_TemporariesDefinedEarlier ==
    \A result \in Results : \A statements \in chains_of(result) :
        \A i \in 1..Len(statements) : \A name \in statement_reads(statements[i]) :
            defined_before(statements, i, name) # 0

C1_Witness ==
    /\ processed.result.kind = "Ok"
    /\ \E statements \in chains_of(processed.result) : \E i \in 1..Len(statements) :
           Cardinality(statement_reads(statements[i])) = 2

(***************************************************************************)
(* C2: the entries of a chain are in left-to-right post-order: for an      *)
(* entry with two operands, the entry that defines a temporary of the left *)
(* operand comes before the entry that defines a temporary of the right    *)
(* operand.                                                                *)
(***************************************************************************)
C2_LeftBeforeRight ==
    \A result \in Results : \A statements \in chains_of(result) :
        \A i \in 1..Len(statements) :
            (statements[i].expression # None /\ statements[i].expression[1].two # None) =>
                \A left \in TemporaryWords(statements[i].expression[1].one.text) :
                    \A right \in TemporaryWords(statements[i].expression[1].two[1].text) :
                        defined_before(statements, i, left) < defined_before(statements, i, right)

RECURSIVE nodes_of(_)
\* Every node of a tree.
nodes_of(node) == {node} \cup UNION {nodes_of(node.children[i]) : i \in 1..Len(node.children)}

number_tokens(node) == {n.text : n \in {m \in nodes_of(node) : m.kind = "number"}}

operands_of(entry) ==
    IF entry.expression = None THEN {}
    ELSE {entry.expression[1].one} \cup {entry.expression[1].two[k] : k \in 1..Len(entry.expression[1].two)}

(***************************************************************************)
(* C4: a unary expression flattens without a synthetic zero: no entry      *)
(* holds a number operand `0` unless the tree contains `0` as a number     *)
(* token.                                                                  *)
(***************************************************************************)
C4_NoSyntheticZero ==
    \A result \in Results : \A statements \in chains_of(result) :
        \A i \in 1..Len(statements) : \A operand \in operands_of(statements[i]) :
            (operand.tag = "Number" /\ operand.text = <<"0">>) => <<"0">> \in number_tokens(tree)

RECURSIVE without_brackets(_)
\* The tree with the brackets around single operands removed: a variable
\* that holds [v] becomes v.
without_brackets(node) ==
    LET kids == [i \in 1..Len(node.children) |-> without_brackets(node.children[i])]
        inner == node.children[1].children[1].children[1].children[1]
    IN  IF /\ node.kind = "variable" /\ Len(node.children) = 1
           /\ node.children[1].kind = "prioritize" /\ Len(node.children[1].children) = 1
           /\ node.children[1].children[1].kind = "expression"
           /\ Len(node.children[1].children[1].children) = 1
           /\ Len(node.children[1].children[1].children[1].children) = 1
           /\ inner.kind = "variable"
        THEN without_brackets(inner)
        ELSE IF node.children = <<>> THEN node
        ELSE CASE node.kind = "call" -> call(kids[1], Tail(kids))
               [] node.kind = "identifier" -> Node("identifier", kids[1].text, kids)
               [] node.kind = "identifier_chain" -> identifier_chain(kids)
               [] node.kind = "prioritize" -> prioritize(kids)
               [] node.kind = "variable" -> variable(kids)
               [] node.kind = "statement" -> statement(kids)
               [] node.kind = "source" -> source(kids)
               [] OTHER -> Node(node.kind, join(texts(kids), <<" ">>), kids)

(***************************************************************************)
(* C5: brackets are transparent: a tree and the tree without its redundant *)
(* brackets flatten to equal roots.                                        *)
(***************************************************************************)
C5_BracketsTransparent ==
    flattened.kind = "Ok" => flattened = flatten_tree(without_brackets(tree))

\* A bracket with no expression in it, or with an expression of no sections.
is_empty_bracket(node) ==
    /\ node.kind = "prioritize"
    /\ \A i \in 1..Len(node.children) :
           node.children[i].kind = "expression" => node.children[i].children = <<>>

has_empty_bracket(node) == \E n \in nodes_of(node) : is_empty_bracket(n)

has_statement(node) == \E n \in nodes_of(node) : n.kind = "statement"

(***************************************************************************)
(* C7: process_tree validates before it flattens and does not flatten what *)
(* failed validation; it then returns the validation error; and a result   *)
(* that is not Ok carries no root.                                         *)
(***************************************************************************)
C7_FirstFailureAborts ==
    /\ processed.result # NotCalled =>
           /\ processed.stages[1] = "validate"
           /\ validate_tree(tree).kind = "Err" =>
                  /\ processed.stages = <<"validate">>
                  /\ processed.result.kind = "Err"
                  /\ processed.result.error = validate_tree(tree).error
           /\ validate_tree(tree).kind = "Ok" => processed.result = flatten_tree(tree)
    /\ \A result \in Results \ {NotCalled} :
           result.kind # "Ok" => result.root = None /\ result.error # None

C7_Witness ==
    /\ processed.result.kind = "Err"
    /\ processed.result.error[1].type = "FlattenError"
    /\ processed.stages = <<"validate", "flatten">>

(***************************************************************************)
(* C9: a tree with no statements is accepted and yields an empty root; a   *)
(* tree that contains an empty bracket is rejected, by process_tree and by *)
(* flatten_tree called directly.                                           *)
(***************************************************************************)
C9_EmptyBracketRejected ==
    /\ (~has_statement(tree) /\ tree.kind = "source_file" /\ validate_tree(tree).kind = "Ok") =>
           \A result \in Results : result # NotCalled => result = ResultOk([statement_chains |-> [c \in 1..Len(children_of_kind(tree, "statement_chain")) |-> [statements |-> <<>>]]])
    /\ has_empty_bracket(tree) =>
           \A result \in Results : result # NotCalled => result.kind # "Ok"

(***************************************************************************)
(* The command line (src/src/main.rs).  A path names a file that is absent *)
(* or holds a program; without a path the lines of standard input are      *)
(* handled one by one.  The parser is outside the model: a program is the  *)
(* tree the parser gives for it.  A panic ends the process with code 101   *)
(* and a message on standard error; returning from main ends it with 0.    *)
(***************************************************************************)

MaxLines == 3

PanicExitCode == 101

\* x : "s t" + b;  -- validates, and flatten_tree returns an error for it.
spaced_string_program ==
    program(<<statement(<<constant_definition(<<"x">>),
                          infix(plain(string(<<"\"", "s", " ", "t", "\"">>)), "+", operand_at(2))>>)>>)

MainTrees ==
    { program(<<>>),
      program(<<statement(<<constant_definition(<<"x">>), simple(operand_at(1))>>)>>),
      program(<<statement(<<constant_definition(<<"x">>), infix(operand_at(1), "+", operand_at(2))>>)>>),
      spaced_string_program }

Files == {[exists |-> FALSE, tree |-> source_file(<<>>)]} \cup {[exists |-> TRUE, tree |-> t] : t \in MainTrees}

\* A line of standard input: text the parser is given, or a read error.
Lines == {[readable |-> FALSE, tree |-> source_file(<<>>)]} \cup {[readable |-> TRUE, tree |-> t] : t \in MainTrees}

\* What main does with the tree of one input: print the root of an Ok
\* result in the chosen format, do nothing for an Err (the `if let Ok`
\* has no else), and unwind on a panic.
main_handle(result, streams) ==
    IF result.kind = "Ok"
    THEN [streams EXCEPT !.stdout = Append(@, [format |-> output, root |-> result.root[1]]),
                         !.outcomes = Append(@, "Ok")]
    ELSE IF result.kind = "Err"
    THEN [streams EXCEPT !.outcomes = Append(@, "Err")]
    ELSE [streams EXCEPT !.stderr = Append(@, "panicked"),
                         !.outcomes = Append(@, "Panic"),
                         !.exit_code = Some(PanicExitCode)]

streams_now == [stdout |-> stdout, stderr |-> stderr, outcomes |-> outcomes, exit_code |-> exit_code]

set_streams(streams) ==
    /\ stdout' = streams.stdout
    /\ stderr' = streams.stderr
    /\ outcomes' = streams.outcomes
    /\ exit_code' = streams.exit_code

MainInit ==
    /\ library_idle /\ number_idle /\ builder_idle /\ machine_idle
    /\ output \in {"Text", "Json"}
    /\ \/ path \in {Some(f) : f \in Files} /\ stdin = <<>>
       \/ path = None /\ stdin \in SequencesUpTo(Lines, 0, MaxLines)
    /\ stdout = <<>> /\ stderr = <<>> /\ exit_code = None /\ outcomes = <<>>

\* main, with a path: read the file (unwrap), flatten, print, return.
MainPath ==
    /\ path # None /\ exit_code = None
    /\ IF ~path[1].exists
       THEN set_streams([streams_now EXCEPT !.stderr = Append(@, "panicked"),
                                            !.exit_code = Some(PanicExitCode)])
       ELSE LET done(streams) ==
                    set_streams(IF streams.exit_code = None
                                THEN [streams EXCEPT !.exit_code = Some(0)]
                                ELSE streams)
            IN  done(main_handle(flatten_tree(path[1].tree), streams_now))
    /\ UNCHANGED <<path, output, stdin, library_vars, number_vars, builder_vars, machine_vars>>

\* main, without a path: one turn of the loop over the lines of stdin.
MainLine ==
    /\ path = None /\ exit_code = None /\ stdin # <<>>
    /\ stdin' = Tail(stdin)
    /\ IF Head(stdin).readable
       THEN set_streams(main_handle(flatten_tree(Head(stdin).tree), streams_now))
       ELSE set_streams(streams_now)
    /\ UNCHANGED <<path, output, library_vars, number_vars, builder_vars, machine_vars>>

\* main, without a path: standard input is at its end, main returns.
MainEnd ==
    /\ path = None /\ exit_code = None /\ stdin = <<>>
    /\ set_streams([streams_now EXCEPT !.exit_code = Some(0)])
    /\ UNCHANGED <<path, output, stdin, library_vars, number_vars, builder_vars, machine_vars>>

MainNext == MainPath \/ MainLine \/ MainEnd

SpecMain == MainInit /\ [][MainNext]_vars

(***************************************************************************)
(* C8: every input whose flattening fails is reported on standard error,   *)
(* and the exit code is zero only when every input was flattened.          *)
(***************************************************************************)
C8_StageErrorsReported ==
    /\ Cardinality({i \in 1..Len(outcomes) : outcomes[i] # "Ok"}) <= Len(stderr)
    /\ exit_code = Some(0) => \A i \in 1..Len(outcomes) : outcomes[i] = "Ok"

(***************************************************************************)
(* Number tokens: validate_number_format (src/src/validate.rs) and the     *)
(* decoding of parse_number (src/src/jit.rs), on the variant that the      *)
(* parser of src/src/virtual_machine.rs builds for the token.              *)
(***************************************************************************)

MaxTokLen == 3

NumberAlphabet == {"0", "1", "7", "9", "b", "O", "d", "X", "f", "g", "+"}

\* Two tokens of well-formed shape, one past i64::MAX in base 10 and in base 16.
LongTokens ==
    { <<"0", "d">> \o <<"9","2","2","3","3","7","2","0","3","6","8","5","4","7","7","5","8","0","8">>,
      <<"0", "x">> \o <<"8","0","0","0","0","0","0","0","0","0","0","0","0","0","0","0">> }

NumberTexts == SequencesUpTo(NumberAlphabet, 1, MaxTokLen) \cup LongTokens

HexChars == <<"0","1","2","3","4","5","6","7","8","9","a","b","c","d","e","f">>

UpperHexChars == <<"0","1","2","3","4","5","6","7","8","9","A","B","C","D","E","F">>

\* char::to_digit: the value of c as a digit of the radix, -1 if it is none.
to_digit(c, radix) ==
    LET hits == {i \in 1..radix : HexChars[i] = c \/ UpperHexChars[i] = c}
    IN  IF hits = {} THEN 0 - 1 ELSE (CHOOSE i \in hits : TRUE) - 1

\* The digits of i64::MAX in each radix.
max_digits(radix) ==
    IF radix = 2 THEN [i \in 1..63 |-> "1"]
    ELSE IF radix = 8 THEN [i \in 1..21 |-> "7"]
    ELSE IF radix = 10 THEN <<"9","2","2","3","3","7","2","0","3","6","8","5","4","7","7","5","8","0","7">>
    ELSE <<"7">> \o [i \in 1..15 |-> "f"]

RECURSIVE strip_zeros(_)
strip_zeros(digits) ==
    IF digits # <<>> /\ Head(digits) = "0" THEN strip_zeros(Tail(digits)) ELSE digits

\* digits > limit, both without leading zeros, as numbers of the radix.
RECURSIVE digits_greater(_, _, _)
digits_greater(digits, limit, radix) ==
    IF Len(digits) # Len(limit) THEN Len(digits) > Len(limit)
    ELSE IF digits = <<>> THEN FALSE
    ELSE IF to_digit(Head(digits), radix) # to_digit(Head(limit), radix)
         THEN to_digit(Head(digits), radix) > to_digit(Head(limit), radix)
    ELSE digits_greater(Tail(digits), Tail(limit), radix)

RECURSIVE digits_value(_, _)
digits_value(digits, radix) ==
    IF digits = <<>> THEN 0
    ELSE digits_value(SubSeq(digits, 1, Len(digits) - 1), radix) * radix + to_digit(digits[Len(digits)], radix)

ParseOk(value) == [kind |-> "Ok", value |-> Some(value), error |-> None]

ParseErr(detail) == [kind |-> "Err", value |-> None, error |-> Some(detail)]

\* i64::from_str_radix: an optional sign, then one or more digits of the
\* radix; a value outside i64 is an error.  (The least i64 is one further
\* from zero than the greatest; no token of NumberTexts has a minus sign.)
from_str_radix(src, radix) ==
    IF src = <<>> THEN ParseErr("Empty")
    ELSE LET signed == Head(src) \in {"+", "-"}
             digits == IF signed THEN Tail(src) ELSE src
         IN  IF digits = <<>> \/ \E i \in 1..Len(digits) : to_digit(digits[i], radix) < 0
             THEN ParseErr("InvalidDigit")
             ELSE IF digits_greater(strip_zeros(digits), max_digits(radix), radix)
             THEN ParseErr(IF Head(src) = "-" THEN "NegOverflow" ELSE "PosOverflow")
             ELSE ParseOk(IF Head(src) = "-"
                          THEN 0 - digits_value(strip_zeros(digits), radix)
                          ELSE digits_value(strip_zeros(digits), radix))

ASTNumber(variant, s) == [variant |-> variant, s |-> s]

\* The variant the parser builds: the kind of the token's child, which the
\* grammar names after the prefix of the token.
ast_number(token) ==
    IF token = <<"0">> THEN Some(ASTNumber("Zero", <<>>))
    ELSE IF Len(token) < 2 \/ token[1] # "0" THEN None
    ELSE IF token[2] \in {"b", "B"} THEN Some(ASTNumber("Binary", token))
    ELSE IF token[2] \in {"o", "O"} THEN Some(ASTNumber("Octal", token))
    ELSE IF token[2] \in {"d", "D"} THEN Some(ASTNumber("Decimal", token))
    ELSE IF token[2] \in {"x", "X"} THEN Some(ASTNumber("Hex", token))
    ELSE None

parse_number(ast) ==
    IF ast.variant = "Zero" THEN ParseOk(0)
    ELSE IF ast.variant = "Binary" THEN from_str_radix(SubSeq(ast.s, 3, Len(ast.s)), 2)
    ELSE IF ast.variant = "Octal" THEN from_str_radix(SubSeq(ast.s, 3, Len(ast.s)), 8)
    ELSE IF ast.variant = "Decimal" THEN from_str_radix(SubSeq(ast.s, 3, Len(ast.s)), 10)
    ELSE from_str_radix(SubSeq(ast.s, 3, Len(ast.s)), 16)

NumberInit ==
    /\ library_idle /\ main_idle /\ builder_idle /\ machine_idle
    /\ number_text \in NumberTexts
    /\ format_result = "NotCalled" /\ number_value = None

ValidateNumberFormat ==
    /\ format_result = "NotCalled"
    /\ format_result' = validate_number_format(number_text)
    /\ UNCHANGED <<number_text, number_value, library_vars, main_vars, builder_vars, machine_vars>>

ParseNumber ==
    /\ number_value = None
    /\ number_value' = Some(IF ast_number(number_text) = None
                            THEN ParseErr("Invalid number")
                            ELSE parse_number(ast_number(number_text)[1]))
    /\ UNCHANGED <<number_text, format_result, library_vars, main_vars, builder_vars, machine_vars>>

NumberNext == ValidateNumberFormat \/ ParseNumber

SpecNumber == NumberInit /\ [][NumberNext]_vars

\* The digits a radix allows.
radix_of(letter) ==
    IF letter \in {"b", "B"} THEN 2
    ELSE IF letter \in {"o", "O"} THEN 8
    ELSE IF letter \in {"d", "D"} THEN 10
    ELSE IF letter \in {"x", "X"} THEN 16
    ELSE 0

\* `0`, or a radix prefix and then one or more digits of the radix.
well_formed_number(text) ==
    \/ text = <<"0">>
    \/ /\ Len(text) >= 3 /\ text[1] = "0" /\ radix_of(text[2]) # 0
       /\ \A i \in 3..Len(text) : to_digit(text[i], radix_of(text[2])) >= 0

(***************************************************************************)
(* C10: validate_number_format accepts a token exactly when it is `0` or a *)
(* radix prefix followed by one or more digits of the radix, and every     *)
(* such token decodes to a value.                                          *)
(***************************************************************************)
C10_AcceptedExactlyWellFormed ==
    /\ format_result # "NotCalled" =>
           (format_result = Valid <=> well_formed_number(number_text))
    /\ (number_value # None /\ well_formed_number(number_text)) =>
           number_value[1].kind = "Ok"

(***************************************************************************)
(* The builders of the indexed representation: the root owns the pools of  *)
(* numbers and strings and the list of finished sources; each open source  *)
(* builder owns its list of expressions and its pool of identifiers, and   *)
(* the innermost open one is the last of `builders`.  Indices count from   *)
(* zero.  send_ interns a token and returns its index; take_expression     *)
(* appends to the innermost source and returns the index of the new entry; *)
(* take_source finishes the innermost source.  `last_call` remembers the   *)
(* call and the pool it was made on; `taken` counts the expressions a      *)
(* source was given.                                                       *)
(***************************************************************************)

MaxCalls == 6

NumberTokens == {"0d10", "0d2"}

StringTokens == {"\"a\"", "'a'"}

IdentifierTokens == {"x", "y"}

FlatIndex(tag, u) == [tag |-> tag, u |-> u]

FlatBinary(one, two, operator) == [one |-> one, two |-> two, operator |-> operator]

EmptySource == [expressions |-> <<>>, identifiers |-> <<>>, taken |-> 0]

holds(pool, token) == \E i \in 1..Len(pool) : pool[i] = token

\* The place of the first occurrence of a token of the pool.
position(pool, token) ==
    CHOOSE i \in 1..Len(pool) : pool[i] = token /\ \A j \in 1..(i - 1) : pool[j] # token

\* An insert that never looks for the token.
intern_append(pool, token) == [pool |-> Append(pool, token), index |-> Len(pool), fresh |-> TRUE]

\* Dedup-on-insert by exact token.
intern(pool, token) ==
    IF holds(pool, token)
    THEN [pool |-> pool, index |-> position(pool, token) - 1, fresh |-> FALSE]
    ELSE [pool |-> Append(pool, token), index |-> Len(pool), fresh |-> TRUE]

\* An expression list that is interned like a pool.
intern_expression(list, entry) == intern(list, entry)

\* Expressions are appended, never looked up.
append_expression(list, entry) == [pool |-> Append(list, entry), index |-> Len(list), fresh |-> TRUE]

innermost == builders[Len(builders)]

\* The indices a binary of the innermost source can hold.
operand_indices ==
    (IF numbers = <<>> THEN {} ELSE {FlatIndex("Number", 0)})
    \cup (IF innermost.identifiers = <<>> THEN {} ELSE {FlatIndex("Identifier", 0)})
    \cup (IF innermost.expressions = <<>> THEN {}
          ELSE {FlatIndex("Expression", Len(innermost.expressions) - 1)})

\* Unary and binary subtractions over those indices.
Binaries ==
    {[variant |-> "Additive", binary |-> FlatBinary(one, two, "Subtract")] :
        one \in {None, Some(FlatIndex("Number", 0))} \cap ({None} \cup {Some(o) : o \in operand_indices}),
        two \in operand_indices}

BuilderInit ==
    /\ library_idle /\ main_idle /\ number_idle /\ machine_idle
    /\ numbers = <<>> /\ strings = <<>> /\ sources = <<>> /\ builders = <<>>
    /\ last_call = [op |-> "none"] /\ returned = None /\ calls = 0

called(op, token, fresh) ==
    /\ last_call' = [op |-> op, token |-> token, fresh |-> fresh,
                     numbers |-> numbers, strings |-> strings, builders |-> builders]
    /\ calls' = calls + 1

send_number(token) ==
    /\ calls < MaxCalls
    /\ numbers' = intern(numbers, token).pool
    /\ returned' = Some(FlatIndex("Number", intern(numbers, token).index))
    /\ called("send_number", token, intern(numbers, token).fresh)
    /\ UNCHANGED <<strings, sources, builders, library_vars, main_vars, number_vars, machine_vars>>

send_string(token) ==
    /\ calls < MaxCalls
    /\ strings' = intern(strings, token).pool
    /\ returned' = Some(FlatIndex("String", intern(strings, token).index))
    /\ called("send_string", token, intern(strings, token).fresh)
    /\ UNCHANGED <<numbers, sources, builders, library_vars, main_vars, number_vars, machine_vars>>

send_identifier(token) ==
    /\ calls < MaxCalls /\ builders # <<>>
    /\ builders' = [builders EXCEPT ![Len(builders)].identifiers = intern(@, token).pool]
    /\ returned' = Some(FlatIndex("Identifier", intern(innermost.identifiers, token).index))
    /\ called("send_identifier", token, intern(innermost.identifiers, token).fresh)
    /\ UNCHANGED <<numbers, strings, sources, library_vars, main_vars, number_vars, machine_vars>>

take_expression(entry) ==
    /\ calls < MaxCalls /\ builders # <<>>
    /\ builders' = [builders EXCEPT ![Len(builders)].expressions = append_expression(@, entry).pool,
                                    ![Len(builders)].taken = @ + 1]
    /\ returned' = Some(FlatIndex("Expression", append_expression(innermost.expressions, entry).index))
    /\ called("take_expression", entry, TRUE)
    /\ UNCHANGED <<numbers, strings, sources, library_vars, main_vars, number_vars, machine_vars>>

push_source ==
    /\ calls < MaxCalls
    /\ builders' = Append(builders, EmptySource)
    /\ returned' = None
    /\ called("push_source", "", TRUE)
    /\ UNCHANGED <<numbers, strings, sources, library_vars, main_vars, number_vars, machine_vars>>

take_source ==
    /\ calls < MaxCalls /\ builders # <<>>
    /\ sources' = Append(sources, innermost)
    /\ builders' = SubSeq(builders, 1, Len(builders) - 1)
    /\ returned' = Some(FlatIndex("Source", Len(sources)))
    /\ called("take_source", "", TRUE)
    /\ UNCHANGED <<numbers, strings, library_vars, main_vars, number_vars, machine_vars>>

SendNumber == \E token \in NumberTokens : send_number(token)

SendString == \E token \in StringTokens : send_string(token)

SendIdentifier == \E token \in IdentifierTokens : send_identifier(token)

TakeExpression == builders # <<>> /\ \E entry \in Binaries : take_expression(entry)

BuilderNext ==
    SendNumber \/ SendString \/ SendIdentifier \/ TakeExpression \/ push_source \/ take_source

SpecBuilder == BuilderInit /\ [][BuilderNext]_vars

distinct(pool) == \A i, j \in 1..Len(pool) : pool[i] = pool[j] => i = j

\* What an insert of the token into the pool `before` must leave and return.
interned(before, after, index, token) ==
    IF holds(before, token)
    THEN after = before /\ index = position(before, token) - 1
    ELSE after = Append(before, token) /\ index = Len(before)

(***************************************************************************)
(* C3: an insert of a token that its pool holds returns the index of the   *)
(* first insertion and leaves the pool as it was; a new token is appended; *)
(* an identifier is looked up in the pool of the innermost source only,    *)
(* and no other source changes.                                            *)
(***************************************************************************)
C3_InterningIdempotentAndScoped ==
    /\ distinct(numbers) /\ distinct(strings)
    /\ \A i \in 1..Len(builders) : distinct(builders[i].identifiers)
    /\ \A i \in 1..Len(sources) : distinct(sources[i].identifiers)
    /\ last_call.op = "send_number" =>
           /\ interned(last_call.numbers, numbers, returned[1].u, last_call.token)
           /\ returned[1].tag = "Number"
    /\ last_call.op = "send_string" =>
           /\ interned(last_call.strings, strings, returned[1].u, last_call.token)
           /\ returned[1].tag = "String"
    /\ last_call.op = "send_identifier" =>
           /\ Len(builders) = Len(last_call.builders)
           /\ \A i \in 1..(Len(builders) - 1) : builders[i] = last_call.builders[i]
           /\ interned(last_call.builders[Len(builders)].identifiers, innermost.identifiers,
                       returned[1].u, last_call.token)
           /\ returned[1].tag = "Identifier"

\* An identifier that the innermost source holds is inserted again, and an
\* enclosing source holds the same identifier at another index.
C3_Witness ==
    /\ last_call.op = "send_identifier" /\ ~last_call.fresh
    /\ Len(builders) = 2
    /\ holds(builders[1].identifiers, last_call.token)
    /\ position(builders[1].identifiers, last_call.token) - 1 # returned[1].u

has_source(node) == \E n \in nodes_of(node) : n.kind = "source"

(***************************************************************************)
(* C11: validate_tree returns the UnsupportedSourceBlock error for every   *)
(* tree that holds a source block, at any depth.                           *)
(***************************************************************************)
C11_SourceBlockRejectedAtAnyDepth ==
    (has_source(tree) /\ validated # NotCalled) =>
        /\ validated.kind = "Err"
        /\ validated.error = Some([type |-> "ValidationError", detail |-> "UnsupportedSourceBlock"])

(***************************************************************************)
(* The executor: execute_bytecode maps the code and a stack, enters the    *)
(* generated code once and reads the result slot.  The generated code      *)
(* (registers_swap, registers_exit and the body of main) is the            *)
(* trampoline of the calling convention.                                   *)
(***************************************************************************)
MaxRuns == 3

MaxEntries == 2

HelloLength == 13

\* What the write system call leaves in RAX: the whole buffer, a short
\* write, nothing, or the bit pattern of -EBADF.
WriteReturns == {HelloLength, 5, 0, 0 - 9}

\* execute.rs 49: the stack region is 64 KiB.
StackSize == 65536

\* Where the two regions may be mapped, and the offset of the main label
\* in the code the generator produced (registers_swap is at offset 0).
ExecutableBases == {4096, 8192}

StackBase == 131072

MainOffsets == {64, 96}

\* The callee-saved registers the host may hold when it makes the call
\* (scratch, RBX, RBP, R12, R13, R14, R15, RSP), and what the body of main
\* may leave in them.
HostRegisters == {<<0, 11, 12, 13, 14, 15, 16, 900000>>,
                  <<0, 21, 22, 23, 24, 25, 26, 800000>>}

GuestClobbers == {<<0, 0, 0, 0, 0, 0, 0>>, <<0, 71, 72, 73, 74, 75, 76>>}

\* registers_swap: the callee-saved registers and RSP go to the record RDI
\* points at; its scratch slot is left alone.
store_registers_nowhere(record, registers) == record

store_registers(record, registers) ==
    [i \in 1..8 |-> IF i = 1 THEN record[i] ELSE registers[i]]

\* The loads of registers_swap and registers_exit from the record RSI
\* points at.
load_registers(registers, record) ==
    [i \in 1..8 |-> IF i = 1 THEN registers[i] ELSE record[i]]

Interface(interface_type, interface_data) ==
    [interface_type |-> interface_type, interface_data |-> interface_data]

execute_ok(interface) == [kind |-> "Ok", value |-> Some(interface), error |-> None]

ExecuteError(detail) == [kind |-> "Err", value |-> None, error |-> Some(detail)]

\* The body of main ends by pointing RSI at the coroutine registers_exit
\* is to load: the host state registers_swap saved through RDI.
main_exit_kept(rdi_now, rsi_now) == rsi_now

main_exit(rdi_now, rsi_now) == rdi_now

\* What the host may find in main.result after the call: main is an
\* immutable binding handed out by shared reference, so a build may read
\* the slot the guest wrote or keep the value it was initialised with.
result_reads(written) == {written, Void}

ExecuteInit ==
    /\ library_idle /\ main_idle /\ number_idle /\ builder_idle
    /\ execute_idle /\ jit_idle /\ contract_idle

\* execute.rs 39-47: the executable region is mapped and the code copied.
MapExecutable ==
    /\ host_pc = "idle"
    /\ runs < MaxRuns
    /\ \E failure \in {"none", "Failed to create memory map", "Failed to map memory"} :
        IF failure = "none"
        THEN /\ regions' = regions \cup {"executable_map"}
             /\ host_pc' = "map_stack"
             /\ execute_result' = None
             /\ runs' = runs
        ELSE /\ regions' = regions
             /\ host_pc' = "idle"
             /\ execute_result' = Some(ExecuteError(failure))
             /\ runs' = runs + 1
    /\ \E base \in ExecutableBases, offset \in MainOffsets :
          cpu' = [cpu_host EXCEPT !.executable_map = base, !.main = offset]
    /\ counts' = no_counts
    /\ slot' = Void /\ fd1' = fd1
    /\ UNCHANGED <<library_vars, main_vars, number_vars, builder_vars, jit_vars, contract_vars>>

\* execute.rs 49-83: the stack region is mapped, the address of main is
\* written to its last word, the coroutines and the main frame are built.
\* A failure returns through `?`, which drops executable_map.
MapStack ==
    /\ host_pc = "map_stack"
    /\ \E failure \in {"none", "Failed to create memory map", "Failed to map memory"} :
        IF failure = "none"
        THEN /\ regions' = regions \cup {"stack_map"}
             /\ host_pc' = "call"
             /\ execute_result' = None
             /\ runs' = runs
        ELSE /\ regions' = regions \ {"executable_map"}
             /\ host_pc' = "idle"
             /\ execute_result' = Some(ExecuteError(failure))
             /\ runs' = runs + 1
    /\ LET stack_end == StackSize - 8
           stack_ptr == StackBase + stack_end
       IN  cpu' = IF host_pc' = "call"
                  THEN [cpu EXCEPT !.stack_ptr = stack_ptr,
                                   !.stack_word = cpu.executable_map + cpu.main,
                                   !.old = Coroutine(0),
                                   !.new = Coroutine(stack_ptr),
                                   !.entry = cpu.executable_map]
                  ELSE cpu
    /\ slot' = Void
    /\ UNCHANGED <<counts, fd1>>
    /\ UNCHANGED <<library_vars, main_vars, number_vars, builder_vars, jit_vars, contract_vars>>

\* execute.rs 85: call(&old, &new, &main) enters the first byte of the
\* code, registers_swap, with RDI = old and RSI = new.
Call ==
    /\ host_pc = "call"
    /\ host_pc' = "in_call"
    /\ cpu.entry = cpu.executable_map
    /\ \E held \in HostRegisters :
          cpu' = [cpu EXCEPT !.control = "guest", !.label = "registers_swap",
                             !.rdi = "old", !.rsi = "new", !.rsp = "host_stack",
                             !.old_saved = FALSE, !.at_call = held,
                             !.registers = [held EXCEPT ![RspSlot] = @ - 8]]
    /\ counts' = [counts EXCEPT !.entries = @ + 1]
    /\ UNCHANGED <<regions, slot, execute_result, runs, fd1>>
    /\ UNCHANGED <<library_vars, main_vars, number_vars, builder_vars, jit_vars, contract_vars>>

\* registers_swap stores the callee-saved registers through RDI, loads the
\* set RSI points at and falls through into registers_exit.
registers_swap ==
    /\ cpu.control = "guest" /\ cpu.label = "registers_swap"
    /\ counts.main_runs < MaxEntries
    /\ cpu' = [cpu EXCEPT !.old_saved = TRUE, !.rsp = "stack_map",
                          !.old = store_registers(cpu.old, cpu.registers),
                          !.registers = load_registers(cpu.registers, cpu.new),
                          !.label = "registers_exit"]
    /\ UNCHANGED <<host_pc, regions, counts, slot, execute_result, runs, fd1>>
    /\ UNCHANGED <<library_vars, main_vars, number_vars, builder_vars, jit_vars, contract_vars>>

\* registers_exit loads the registers RSI points at and returns: on the
\* guest stack the word on top is the address of main, on the host stack
\* it is the return address of the call.
registers_exit ==
    /\ cpu.control = "guest" /\ cpu.label = "registers_exit"
    /\ LET record == IF cpu.rsi = "new" THEN cpu.new ELSE cpu.old
           loaded == load_registers(cpu.registers, record)
           \* ret: the word RSP points at is popped into the program counter
           after_ret == [loaded EXCEPT ![RspSlot] = @ + 8]
       IN  IF loaded[RspSlot] = cpu.stack_ptr
           THEN /\ counts.main_runs < MaxEntries
                /\ cpu.stack_word = cpu.executable_map + cpu.main
                /\ cpu' = [cpu EXCEPT !.rsp = "stack_map", !.label = "main",
                                      !.registers = after_ret]
                /\ counts' = [counts EXCEPT !.main_runs = @ + 1]
           ELSE IF loaded[RspSlot] = cpu.at_call[RspSlot] - 8
           THEN /\ cpu' = [cpu EXCEPT !.rsp = "host_stack", !.label = "none",
                                      !.control = "host", !.registers = after_ret]
                /\ counts' = [counts EXCEPT !.exits = @ + 1,
                                            !.exit_label = "registers_exit"]
           ELSE \* RSP points at no stack: the return faults
                /\ cpu' = [cpu EXCEPT !.rsp = "none", !.label = "none",
                                      !.control = "fault", !.registers = after_ret]
                /\ counts' = counts
    /\ UNCHANGED <<host_pc, regions, slot, execute_result, runs, fd1>>
    /\ UNCHANGED <<library_vars, main_vars, number_vars, builder_vars, jit_vars, contract_vars>>

\* The body of main: write(1, pointer, length), then the value the system
\* call after_ret goes to the result slot with tag Number, then
\* jmp registers_exit.
main_body ==
    /\ cpu.control = "guest" /\ cpu.label = "main"
    /\ \E written \in WriteReturns :
        /\ slot' = Interface("Number", written)
        /\ fd1' = IF written > 0 THEN fd1 + written ELSE fd1
    /\ \E clobber \in GuestClobbers :
          cpu' = [cpu EXCEPT !.rsi = main_exit(cpu.rdi, cpu.rsi),
                             !.registers = clobber \o <<cpu.registers[RspSlot]>>,
                             !.label = "registers_exit"]
    /\ UNCHANGED <<host_pc, regions, counts, execute_result, runs>>
    /\ UNCHANGED <<library_vars, main_vars, number_vars, builder_vars, jit_vars, contract_vars>>

\* execute.rs 87-89: Ok(main.result); both maps are dropped on return.
Return ==
    /\ host_pc = "in_call" /\ cpu.control = "host"
    /\ \E read \in result_reads(slot) : execute_result' = Some(execute_ok(read))
    /\ regions' = regions \ {"executable_map", "stack_map"}
    /\ host_pc' = "idle"
    /\ runs' = runs + 1
    /\ UNCHANGED <<cpu, counts, slot, fd1>>
    /\ UNCHANGED <<library_vars, main_vars, number_vars, builder_vars, jit_vars, contract_vars>>

ExecuteNext ==
    \/ MapExecutable
    \/ MapStack
    \/ Call
    \/ registers_swap
    \/ registers_exit
    \/ main_body
    \/ Return

SpecExecute == ExecuteInit /\ [][ExecuteNext]_vars

(***************************************************************************)
(* C12: in every execution of execute_bytecode control passes from the     *)
(* host to the guest exactly once and from the guest back to the host      *)
(* exactly once, the return going through registers_exit; the generated    *)
(* code is never entered a second time and there is one guest only.        *)
(***************************************************************************)
C12_OneEntryOneExit ==
    /\ counts.entries <= 1 /\ counts.exits <= counts.entries
    /\ counts.main_runs <= 1
    /\ (cpu.control = "guest") =>
          (host_pc = "in_call" /\ counts.entries = 1 /\ counts.exits = 0)
    /\ (host_pc = "in_call" /\ cpu.control = "host") =>
          /\ counts.entries = 1 /\ counts.exits = 1 /\ counts.main_runs = 1
          /\ counts.exit_label = "registers_exit"
    /\ (host_pc = "idle" /\ execute_result # None /\ execute_result[1].kind = "Ok") =>
          /\ counts.entries = 1 /\ counts.exits = 1 /\ counts.main_runs = 1
          /\ counts.exit_label = "registers_exit"

\* A second invocation has come back from its guest.
C12_Witness ==
    /\ runs = 1 /\ host_pc = "in_call" /\ cpu.control = "host"
    /\ counts.exits = 1

(***************************************************************************)
(* C21: the stack switch is a round trip for the host: when the call made  *)
(* at execute.rs 85 has returned through registers_exit, RBX, RBP, R12,    *)
(* R13, R14, R15 and RSP hold the values the host held when it made the    *)
(* call, and the guest jumped to registers_exit with RSI at the old        *)
(* record, which holds the registers registers_swap saved.                 *)
(***************************************************************************)
C21_HostRegistersRoundTrip ==
    /\ (host_pc = "in_call" /\ cpu.control = "host") =>
          /\ \A i \in 2..8 : cpu.registers[i] = cpu.at_call[i]
          /\ cpu.rsi = "old"
          /\ \A i \in 2..7 : cpu.old[i] = cpu.at_call[i]
          /\ cpu.old[RspSlot] = cpu.at_call[RspSlot] - 8
    /\ (cpu.control = "guest" /\ cpu.label = "registers_exit" /\ counts.main_runs = 1) =>
          cpu.rsi = "old"
    /\ cpu.control # "fault"

\* In a second invocation the host has come back with the registers it held.
C21_Witness ==
    /\ host_pc = "in_call" /\ cpu.control = "host" /\ counts.exits = 1
    /\ cpu.at_call[2] = 21 /\ cpu.registers[2] = 21
    /\ runs = 1

(***************************************************************************)
(* C22: when control is transferred, the word 8 bytes below the end of     *)
(* the 64 KiB stack region holds the absolute address of main, the old     *)
(* record is all zero, the new record is zero except its last slot, which  *)
(* holds the address of that word, and the call enters the code at offset  *)
(* 0, the registers_swap label.                                            *)
(***************************************************************************)
C22_FramePreparedBeforeTransfer ==
    (host_pc = "in_call" /\ cpu.control = "guest" /\ cpu.label = "registers_swap") =>
        /\ cpu.stack_ptr = StackBase + StackSize - 8
        /\ cpu.stack_word = cpu.executable_map + cpu.main
        /\ cpu.old = <<0, 0, 0, 0, 0, 0, 0, 0>>
        /\ \A i \in 1..7 : cpu.new[i] = 0
        /\ Len(cpu.new) = 8 /\ cpu.new[8] = cpu.stack_ptr
        /\ cpu.entry = cpu.executable_map + 0
        /\ counts.entries = 1

C22_Witness ==
    /\ host_pc = "in_call" /\ cpu.control = "guest" /\ cpu.label = "registers_swap"
    /\ cpu.executable_map = 8192 /\ cpu.main = 96 /\ cpu.stack_word = 8288

(***************************************************************************)
(* C13: after the entry point has run, the result the host returns is the  *)
(* slot the guest wrote: tag Number, payload the value the write system    *)
(* call returned; a successful run never returns the initial Void/0 slot.  *)
(***************************************************************************)
C13_ResultIsWriteReturn ==
    (host_pc = "idle" /\ execute_result # None /\ execute_result[1].kind = "Ok") =>
        /\ slot.interface_type = "Number"
        /\ slot.interface_data \in WriteReturns
        /\ execute_result[1].value = Some(slot)
        /\ execute_result[1].value # Some(Void)

(***************************************************************************)
(* The JIT compiler (src/src/jit.rs).  A compiler value jc is the record   *)
(* of the JITCompiler fields; an operation on &mut self returns            *)
(* [kind, value, error, jc].  The code buffer holds the encoder requests   *)
(* in the order they were emitted, and execute_code runs them on the       *)
(* registers.  The operands of the programs below keep every intermediate  *)
(* value far inside i64, so ADD, SUB and IMUL never wrap.                  *)
(***************************************************************************)
MaxJitStatements == 3

MaxJitOperators == 3

jit_ok(value, jc) == [kind |-> "Ok", value |-> value, error |-> None, jc |-> jc]

jit_err(error, jc) == [kind |-> "Err", value |-> 0, error |-> Some(error), jc |-> jc]

\* The process is stopped by the divide error of IDIV (SIGFPE), or the
\* quotient of a zero-extended negative dividend lies beyond the integers
\* held here: nothing is returned to the caller.
jit_stop(kind, jc) == [kind |-> kind, value |-> 0, error |-> None, jc |-> jc]

RuntimeError(message) == [type |-> "RuntimeError", message |-> message]

Name(value) == [kind |-> "Name", value |-> value]

ASTCall == [kind |-> "Call"]

\* identifier_chain_to_string: the names joined by ".", a call written "call".
identifier_chain_to_string(chain) ==
    join([i \in 1..Len(chain) |->
            IF chain[i].kind = "Name" THEN chain[i].value ELSE <<"c", "a", "l", "l">>],
         <<".">>)

stack_read(stack_memory, stack_index) ==
    IF stack_index \in DOMAIN stack_memory THEN stack_memory[stack_index] ELSE 0

\* get_variable_from_stack; stack_index is 0-based in the code, slots are
\* numbered from 1 here.
get_variable_from_stack(jc, name) ==
    IF name \in DOMAIN jc.variables
    THEN IF jc.variables[name] - 1 < StackSlots
         THEN jit_ok(stack_read(jc.stack_memory, jc.variables[name]), jc)
         ELSE jit_err(RuntimeError(<<"Stack index out of bounds for variable: ">> \o name), jc)
    ELSE jit_err(RuntimeError(<<"Undefined variable: ">> \o name), jc)

jit_parse_number(jc, ast) ==
    IF parse_number(ast).kind = "Ok"
    THEN jit_ok(parse_number(ast).value[1], jc)
    ELSE jit_err([type |-> "ParseError", message |-> parse_number(ast).error], jc)

Reg(register) == [operand |-> "register", register |-> register, immediate |-> 0]

Imm(immediate) == [operand |-> "immediate", register |-> "", immediate |-> immediate]

Request(mnemonic, operands) == [mnemonic |-> mnemonic, operands |-> operands]

emit_instruction(jc, request) == [jc EXCEPT !.code_buffer = Append(@, request)]

Registers == [r \in {"RAX", "RCX", "RDX"} |-> 0] @@ [fault |-> "none"]

\* IDIV RCX after XOR RDX, RDX: the dividend is RAX zero-extended to 128
\* bits, so a negative RAX is divided as 2^64 + RAX.
idiv(regs) ==
    IF regs.RCX = 0 THEN [regs EXCEPT !.fault = "DivideError"]
    ELSE IF regs.RAX < 0 THEN [regs EXCEPT !.fault = "Wide"]
    ELSE IF regs.RCX > 0
    THEN [regs EXCEPT !.RAX = regs.RAX \div regs.RCX, !.RDX = regs.RAX % regs.RCX]
    ELSE [regs EXCEPT !.RAX = 0 - (regs.RAX \div (0 - regs.RCX)),
                      !.RDX = regs.RAX % (0 - regs.RCX)]

operand_value(regs, operand) ==
    IF operand.operand = "register" THEN regs[operand.register] ELSE operand.immediate

execute_instruction(request, regs) ==
    IF request.mnemonic = "MOV" /\ request.operands[1].register \in {"RAX", "RCX", "RDX"}
    THEN [regs EXCEPT ![request.operands[1].register] = operand_value(regs, request.operands[2])]
    ELSE IF request.mnemonic = "ADD" THEN [regs EXCEPT !.RAX = regs.RAX + regs.RCX]
    ELSE IF request.mnemonic = "SUB" THEN [regs EXCEPT !.RAX = regs.RAX - regs.RCX]
    ELSE IF request.mnemonic = "IMUL" THEN [regs EXCEPT !.RAX = regs.RAX * regs.RCX]
    ELSE IF request.mnemonic = "XOR" THEN [regs EXCEPT !.RDX = 0]
    ELSE IF request.mnemonic = "IDIV" THEN idiv(regs)
    ELSE regs

RECURSIVE run_from(_, _, _)
\* The call of the mapped code: the requests in order up to RET.
run_from(code, at, regs) ==
    IF at > Len(code) \/ regs.fault # "none" \/ code[at].mnemonic = "RET" THEN regs
    ELSE run_from(code, at + 1, execute_instruction(code[at], regs))

MapFailures ==
    {"Failed to create memory map: ", "Failed to map memory: ",
     "Failed to make memory executable: "}

\* execute_code: the mapping is made, run, and kept in executable_memory
\* (the mapping it replaces is dropped by the assignment).
execute_code(jc, failure) ==
    IF jc.code_buffer = <<>> THEN jit_ok(0, jc)
    ELSE IF failure \in MapFailures THEN jit_err(RuntimeError(<<failure>>), jc)
    ELSE LET after(regs) ==
                 IF regs.fault # "none" THEN jit_stop(regs.fault, jc)
                 ELSE jit_ok(regs.RAX,
                             [jc EXCEPT !.executable_memory = Some(jc.executions + 1),
                                        !.executions = @ + 1])
         IN  after(run_from(jc.code_buffer, 1, Registers))

operation_requests(operation) ==
    IF operation = "Add" THEN <<Request("ADD", <<Reg("RAX"), Reg("RCX")>>)>>
    ELSE IF operation = "Subtract" THEN <<Request("SUB", <<Reg("RAX"), Reg("RCX")>>)>>
    ELSE IF operation = "Multiply" THEN <<Request("IMUL", <<Reg("RAX"), Reg("RCX")>>)>>
    ELSE IF operation = "Divide"
    THEN <<Request("XOR", <<Reg("RDX"), Reg("RDX")>>), Request("IDIV", <<Reg("RCX")>>)>>
    ELSE <<Request("XOR", <<Reg("RDX"), Reg("RDX")>>), Request("IDIV", <<Reg("RCX")>>),
           Request("MOV", <<Reg("RAX"), Reg("RDX")>>)>>

\* The register the operand after an operation is loaded into.
operand_register_first == "RAX"

operand_register == "RCX"

RECURSIVE compile_and_get_math_value(_, _, _)
RECURSIVE compile_math_variable_to_register(_, _, _, _)
RECURSIVE math_pairs(_, _, _, _)

\* The nested compilation leaves its own code in the buffer.
keep_nested_buffer(r, saved_buffer) == r

\* self.code_buffer = saved_buffer, reached only when the nested
\* compilation returned Ok.
restore_buffer(r, saved_buffer) ==
    IF r.kind = "Ok" THEN [r EXCEPT !.jc.code_buffer = saved_buffer] ELSE r

compile_math_variable_to_register(jc, operand, register, failure) ==
    LET load(r) ==
            IF r.kind # "Ok" THEN r
            ELSE jit_ok(r.value, emit_instruction(r.jc, Request("MOV", <<Reg(register), Imm(r.value)>>)))
        restore(r) == restore_buffer(r, jc.code_buffer)
    IN  IF operand.kind = "Number" THEN load(jit_parse_number(jc, operand.number))
        ELSE IF operand.kind = "IdentifierChain"
        THEN load(get_variable_from_stack(jc, identifier_chain_to_string(operand.chain)))
        ELSE load(restore(compile_and_get_math_value(jc, operand.sections, failure)))

\* The while loop of compile_and_get_math_value from 0-based index at - 1.
math_pairs(jc, sections, at, failure) ==
    IF at > Len(sections) THEN jit_ok(0, jc)
    ELSE IF at + 1 > Len(sections)
    THEN jit_err(RuntimeError(<<"Math expression ends with operation">>), jc)
    ELSE IF sections[at].section # "Operation"
    THEN jit_err(RuntimeError(<<"Expected operation, found variable">>), jc)
    ELSE IF sections[at + 1].section # "Variable"
    THEN jit_err(RuntimeError(<<"Expected variable, found operation">>), jc)
    ELSE LET after(r) ==
                 IF r.kind # "Ok" THEN r
                 ELSE math_pairs([r.jc EXCEPT !.code_buffer =
                                      @ \o operation_requests(sections[at].operation)],
                                 sections, at + 2, failure)
         IN  after(compile_math_variable_to_register(jc, sections[at + 1].operand,
                                                     operand_register, failure))

compile_and_get_math_value(jc, sections, failure) ==
    IF sections = <<>> THEN jit_ok(0, jc)
    ELSE IF sections[1].section # "Variable"
    THEN jit_err(RuntimeError(<<"Math expression cannot start with operation">>),
                 [jc EXCEPT !.code_buffer = <<Request("PUSH", <<Reg("RBP")>>),
                                              Request("MOV", <<Reg("RBP"), Reg("RSP")>>)>>])
    ELSE LET finish(r) ==
                 IF r.kind # "Ok" THEN r
                 ELSE execute_code([r.jc EXCEPT !.code_buffer =
                                        @ \o <<Request("POP", <<Reg("RBP")>>), Request("RET", <<>>)>>],
                                   failure)
             pairs(r) ==
                 IF r.kind # "Ok" THEN r
                 ELSE finish(math_pairs(r.jc, sections, 2, failure))
         IN  pairs(compile_math_variable_to_register(
                       [jc EXCEPT !.code_buffer = <<Request("PUSH", <<Reg("RBP")>>),
                                                    Request("MOV", <<Reg("RBP"), Reg("RSP")>>)>>],
                       sections[1].operand, operand_register_first, failure))

compile_and_get_expression_value(jc, expr, failure) ==
    IF expr.kind = "Math" THEN compile_and_get_math_value(jc, expr.sections, failure)
    ELSE IF expr.kind = "Number" THEN jit_parse_number(jc, expr.number)
    ELSE IF expr.kind = "IdentifierChain"
    THEN get_variable_from_stack(jc, identifier_chain_to_string(expr.chain))
    ELSE jit_err(RuntimeError(<<"Unsupported expression type">>), jc)

compile_expression(jc, expr, failure) ==
    IF expr.kind = "Math" THEN compile_and_get_math_value(jc, expr.sections, failure)
    ELSE IF expr.kind = "Number" THEN jit_parse_number(jc, expr.number)
    ELSE jit_ok(0, jc)

RECURSIVE store_assignments(_, _, _)
\* The for loop of compile_definition_with_storage over the assignments.
store_assignments(jc, assignments, value) ==
    IF assignments = <<>> THEN jc
    ELSE store_assignments(
             [jc EXCEPT !.stack_offset = @ + 1,
                        !.variables = (identifier_chain_to_string(Head(assignments))
                                          :> (jc.stack_offset + 1)) @@ @,
                        !.stack_memory = IF jc.stack_offset < StackSlots
                                         THEN ((jc.stack_offset + 1) :> value) @@ @
                                         ELSE @],
             Tail(assignments), value)

\* The same with the slot taken before the expression is evaluated.
compile_definition_with_storage_eager(jc, def, failure) ==
    LET after(r) ==
            IF r.kind # "Ok" THEN r
            ELSE jit_ok(r.value, store_assignments([r.jc EXCEPT !.stack_offset = @ - 1],
                                                   def.assignments, r.value))
    IN  after(compile_and_get_expression_value([jc EXCEPT !.stack_offset = @ + 1],
                                               def.expression, failure))

compile_definition_with_storage(jc, def, failure) ==
    LET after(r) ==
            IF r.kind # "Ok" THEN r
            ELSE jit_ok(r.value, store_assignments(r.jc, def.assignments, r.value))
    IN  after(compile_and_get_expression_value(jc, def.expression, failure))

compile_statement_with_storage(jc, stmt, failure) ==
    IF stmt.kind = "Definition" THEN compile_definition_with_storage(jc, stmt, failure)
    ELSE compile_expression(jc, stmt.expression, failure)

get_variable_value(jc, name) ==
    IF get_variable_from_stack(jc, name).kind = "Ok"
    THEN Some(get_variable_from_stack(jc, name).value)
    ELSE None

(***************************************************************************)
(* The programs given to the compiler, as the syntax trees the parser      *)
(* hands to compile_source_file.                                           *)
(***************************************************************************)
decimal(n) == ast_number(<<"0", "d">> \o usize_to_string(n))[1]

MathNumber(n) == [kind |-> "Number", number |-> decimal(n)]

MathIdentifierChain(chain) == [kind |-> "IdentifierChain", chain |-> chain]

MathNested(sections) == [kind |-> "Math", sections |-> sections]

VariableSection(operand) == [section |-> "Variable", operand |-> operand]

OperationSection(operation) == [section |-> "Operation", operation |-> operation]

ASTMath(sections) == [kind |-> "Math", sections |-> sections]

ASTDefinition(assignments, expr) ==
    [kind |-> "Definition", assignments |-> assignments, expression |-> expr]

ExpressionStatement(expr) == [kind |-> "Expression", expression |-> expr]

Operations == {"Add", "Subtract", "Multiply", "Divide", "Modulo"}

ChainValues == {2, 3}

\* v0 op1 v1 ... opk vk without brackets.
math_chain(values, operations) ==
    [i \in 1..(2 * Len(values) - 1) |->
        IF i % 2 = 1 THEN VariableSection(MathNumber(values[(i + 1) \div 2]))
        ELSE OperationSection(operations[i \div 2])]

MathChains ==
    UNION {{math_chain(values, operations) :
                values \in [1..(k + 1) -> ChainValues], operations \in [1..k -> Operations]} :
           k \in 0..MaxJitOperators}

X == <<Name(<<"x">>)>>

Y == <<Name(<<"y">>)>>

U == <<Name(<<"u">>)>>

JitNames == {<<"x">>, <<"y">>, <<"u">>}

JitStatements ==
    { ASTDefinition(<<X>>, ASTMath(math_chain(<<1, 2, 3>>, <<"Add", "Multiply">>))),
      ASTDefinition(<<Y>>, ASTMath(math_chain(<<10, 3, 2, 4>>, <<"Subtract", "Add", "Multiply">>))),
      ASTDefinition(<<X>>, [kind |-> "Number", number |-> decimal(2)]),
      ASTDefinition(<<Y>>, [kind |-> "IdentifierChain", chain |-> X]),
      ASTDefinition(<<X>>, ASTMath(<<VariableSection(MathIdentifierChain(Y)),
                                     OperationSection("Add"),
                                     VariableSection(MathNumber(1))>>)),
      ASTDefinition(<<X, Y>>, ASTMath(math_chain(<<3>>, <<>>))),
      ASTDefinition(<<Y>>, [kind |-> "String", value |-> <<"s">>]),
      ExpressionStatement(ASTMath(math_chain(<<1, 2>>, <<"Add">>))),
      ASTDefinition(<<X>>, ASTMath(<<VariableSection(MathNested(math_chain(<<1, 2>>, <<"Subtract">>))),
                                     OperationSection("Multiply"),
                                     VariableSection(MathNumber(3))>>)),
      ASTDefinition(<<Y>>, ASTMath(math_chain(<<7, 0>>, <<"Divide">>))),
      ASTDefinition(<<X>>, ASTMath(<<VariableSection(MathNumber(1)),
                                     OperationSection("Add"),
                                     VariableSection(MathIdentifierChain(U))>>)),
      ASTDefinition(<<Y>>, ASTMath(math_chain(<<1, 2, 3>>, <<"Subtract", "Divide">>))) }

bracket(sections) == VariableSection(MathNested(sections))

\* tests.rs 156-183: [0d20 - [0d10 - 0d5]] and
\* [[[0d2 + 0d3] * [0d4 - 0d1]] / [0d5 + 0d10]], and brackets in a row.
NestedMaths ==
    { math_chain(<<20>>, <<>>) \o <<OperationSection("Subtract"), bracket(math_chain(<<10, 5>>, <<"Subtract">>))>>,
      <<bracket(<<bracket(math_chain(<<2, 3>>, <<"Add">>)), OperationSection("Multiply"),
                  bracket(math_chain(<<4, 1>>, <<"Subtract">>))>>),
        OperationSection("Divide"),
        bracket(math_chain(<<5, 10>>, <<"Add">>))>>,
      <<bracket(<<bracket(<<bracket(math_chain(<<7>>, <<>>))>>)>>)>>,
      math_chain(<<1, 2>>, <<"Add">>) \o <<OperationSection("Multiply"), bracket(math_chain(<<1, 4>>, <<"Subtract">>)),
                                           OperationSection("Add"), VariableSection(MathNumber(5))>> }

JitPrograms ==
    SequencesUpTo(JitStatements, 1, MaxJitStatements)
        \cup {<<ASTDefinition(<<X>>, ASTMath(sections))>> : sections \in MathChains \cup NestedMaths}

JitInit ==
    /\ library_idle /\ main_idle /\ number_idle /\ builder_idle /\ execute_idle
    /\ contract_idle
    /\ compiler = JITCompiler
    /\ pending \in JitPrograms
    /\ compile_result = None /\ assigned = <<>> /\ last_read = None

\* One turn of the loop of compile_statement_chain_with_storage: the next
\* statement is compiled, and an error ends compile_source_file.
CompileStatement ==
    /\ pending # <<>> /\ compile_result = None
    /\ \E failure \in {"none"} \cup MapFailures :
        LET done(r) ==
                /\ compiler' = r.jc
                /\ IF r.kind = "Ok"
                   THEN /\ pending' = Tail(pending)
                        /\ compile_result' = IF Tail(pending) = <<>>
                                             THEN Some([kind |-> "Ok", error |-> None])
                                             ELSE None
                        /\ assigned' =
                              IF Head(pending).kind = "Definition"
                              THEN assigned \o
                                     [i \in 1..Len(Head(pending).assignments) |->
                                        [name |-> identifier_chain_to_string(Head(pending).assignments[i]),
                                         value |-> r.value]]
                              ELSE assigned
                   ELSE /\ pending' = pending
                        /\ compile_result' = Some([kind |-> r.kind, error |-> r.error])
                        /\ assigned' = assigned
        IN  done(compile_statement_with_storage(compiler, Head(pending), failure))
    /\ UNCHANGED last_read
    /\ UNCHANGED <<library_vars, main_vars, number_vars, builder_vars, execute_vars, contract_vars>>

GetVariableValue ==
    /\ \E name \in JitNames :
          last_read' = Some([name |-> name, value |-> get_variable_value(compiler, name)])
    /\ UNCHANGED <<compiler, pending, compile_result, assigned>>
    /\ UNCHANGED <<library_vars, main_vars, number_vars, builder_vars, execute_vars, contract_vars>>

JitNext == CompileStatement \/ GetVariableValue

SpecJit == JitInit /\ [][JitNext]_vars

(***************************************************************************)
(* C14: the regions an executor call allocates are released when the call  *)
(* returns, on success and on every error path, so that each of a series   *)
(* of executions starts with no region held over from an earlier one.      *)
(* Between two calls the host of execute_bytecode holds no region and the  *)
(* compiler of execute_code holds no mapping.                              *)
(***************************************************************************)
C14_RegionsReleasedOnReturn ==
    /\ (host_pc = "idle") => (regions = {})
    /\ compiler.executable_memory = None

RECURSIVE reads_of_sections(_)
\* The names a math expression reads, in the order it loads its operands.
reads_of_sections(sections) ==
    IF sections = <<>> THEN <<>>
    ELSE (IF Head(sections).section # "Variable" THEN <<>>
          ELSE IF Head(sections).operand.kind = "IdentifierChain"
          THEN <<identifier_chain_to_string(Head(sections).operand.chain)>>
          ELSE IF Head(sections).operand.kind = "Math"
          THEN reads_of_sections(Head(sections).operand.sections)
          ELSE <<>>)
         \o reads_of_sections(Tail(sections))

expression_reads(expr) ==
    IF expr.kind = "Math" THEN reads_of_sections(expr.sections)
    ELSE IF expr.kind = "IdentifierChain" THEN <<identifier_chain_to_string(expr.chain)>>
    ELSE <<>>

unbound_reads(expr, jc) ==
    LET unbound(name) == name \notin DOMAIN jc.variables
    IN  SelectSeq(expression_reads(expr), unbound)

(***************************************************************************)
(* C16: compiling a definition whose expression reads an unbound variable  *)
(* fails with the runtime error that names the variable, the statements    *)
(* after it are not compiled, and variables, stack_offset and the stored   *)
(* values are left as they were.                                           *)
(***************************************************************************)
C16_UndefinedVariableLeavesStateUnchanged ==
    [][(/\ pending # <<>> /\ compile_result = None
        /\ Head(pending).kind = "Definition"
        /\ unbound_reads(Head(pending).expression, compiler) # <<>>
        /\ <<pending, compile_result, compiler>>' # <<pending, compile_result, compiler>>)
       => (/\ compile_result' =
                 Some([kind |-> "Err",
                       error |-> Some(RuntimeError(
                           <<"Undefined variable: ">>
                               \o Head(unbound_reads(Head(pending).expression, compiler))))])
           /\ pending' = pending
           /\ assigned' = assigned
           /\ compiler'.variables = compiler.variables
           /\ compiler'.stack_offset = compiler.stack_offset
           /\ compiler'.stack_memory = compiler.stack_memory)]_vars

\* The read of u has failed after a definition was stored and with
\* statements still to come.
C16_Witness ==
    /\ compile_result = Some([kind |-> "Err",
                              error |-> Some(RuntimeError(<<"Undefined variable: ", "u">>))])
    /\ Len(pending) >= 2
    /\ compiler.stack_offset >= 1

\* A math expression without brackets whose operands are all numbers.
is_number_chain(expr) ==
    /\ expr.kind = "Math"
    /\ Len(expr.sections) % 2 = 1
    /\ \A i \in 1..Len(expr.sections) :
          IF i % 2 = 1
          THEN expr.sections[i].section = "Variable" /\ expr.sections[i].operand.kind = "Number"
          ELSE expr.sections[i].section = "Operation"

apply_operation(operation, left, right) ==
    IF operation = "Add" THEN left + right
    ELSE IF operation = "Subtract" THEN left - right
    ELSE IF operation = "Multiply" THEN left * right
    ELSE IF operation = "Divide" THEN left \div right
    ELSE left % right

RECURSIVE left_to_right(_)
\* ((v0 op1 v1) op2 v2) ... : the last operation is applied to the value of
\* everything before it and the last operand.
left_to_right(sections) ==
    IF Len(sections) = 1 THEN parse_number(sections[1].operand.number).value[1]
    ELSE apply_operation(sections[Len(sections) - 1].operation,
                         left_to_right(SubSeq(sections, 1, Len(sections) - 2)),
                         parse_number(sections[Len(sections)].operand.number).value[1])

magnitude(n) == IF n < 0 THEN 0 - n ELSE n

\* The quotient rounded toward zero and the remainder that goes with it.
signed_quotient(a, b) ==
    IF (a < 0) = (b < 0) THEN magnitude(a) \div magnitude(b)
    ELSE 0 - (magnitude(a) \div magnitude(b))

signed_remainder(a, b) == a - b * signed_quotient(a, b)

\* A chain of numbers whose last operation is a division by a non-zero
\* number and whose earlier operations are not divisions.
ends_in_division(sections) ==
    /\ Len(sections) >= 3
    /\ sections[Len(sections) - 1].operation \in {"Divide", "Modulo"}
    /\ parse_number(sections[Len(sections)].operand.number).value[1] # 0
    /\ \A i \in 1..(Len(sections) - 2) :
          i % 2 = 0 => sections[i].operation \notin {"Divide", "Modulo"}

(***************************************************************************)
(* C27: for signed operands a and b, b not zero, a negative included, the  *)
(* code emitted for Divide leaves the quotient of a by b rounded toward    *)
(* zero in the result register and the code emitted for Modulo leaves the  *)
(* remainder that goes with it.                                            *)
(***************************************************************************)
C27_SignedDivision ==
    [][(/\ pending # <<>> /\ compile_result = None
        /\ Head(pending).kind = "Definition"
        /\ is_number_chain(Head(pending).expression)
        /\ ends_in_division(Head(pending).expression.sections)
        /\ pending' # pending \/ compile_result' # None
        /\ compile_result' = None \/ compile_result'[1].kind # "Err")
       => LET sections == Head(pending).expression.sections
              a == left_to_right(SubSeq(sections, 1, Len(sections) - 2))
              b == parse_number(sections[Len(sections)].operand.number).value[1]
          IN  /\ Len(assigned') > Len(assigned)
              /\ assigned'[Len(assigned')].value =
                    IF sections[Len(sections) - 1].operation = "Divide"
                    THEN signed_quotient(a, b) ELSE signed_remainder(a, b)]_vars

RECURSIVE math_value(_)
RECURSIVE bracket_value(_)
RECURSIVE is_bracket_math(_)
RECURSIVE bracket_count(_)

\* The sections hold numbers and brackets of such sections only.
is_bracket_math(sections) ==
    /\ Len(sections) % 2 = 1
    /\ \A i \in 1..Len(sections) :
          IF i % 2 = 0 THEN sections[i].section = "Operation"
          ELSE /\ sections[i].section = "Variable"
               /\ \/ sections[i].operand.kind = "Number"
                  \/ /\ sections[i].operand.kind = "Math"
                     /\ is_bracket_math(sections[i].operand.sections)

\* The number of brackets in the sections, at every depth.
bracket_count(sections) ==
    IF sections = <<>> THEN 0
    ELSE (IF Head(sections).section = "Variable" /\ Head(sections).operand.kind = "Math"
          THEN 1 + bracket_count(Head(sections).operand.sections) ELSE 0)
         + bracket_count(Tail(sections))

signed_apply(operation, left, right) ==
    IF operation = "Add" THEN left + right
    ELSE IF operation = "Subtract" THEN left - right
    ELSE IF operation = "Multiply" THEN left * right
    ELSE IF operation = "Divide" THEN signed_quotient(left, right)
    ELSE signed_remainder(left, right)

\* The value of an operand: its number, or the value of its bracket.
bracket_value(operand) ==
    IF operand.kind = "Number" THEN parse_number(operand.number).value[1]
    ELSE math_value(operand.sections)

\* The value of the sections with every bracket replaced by its value.
math_value(sections) ==
    IF Len(sections) = 1 THEN bracket_value(sections[1].operand)
    ELSE signed_apply(sections[Len(sections) - 1].operation,
                      math_value(SubSeq(sections, 1, Len(sections) - 2)),
                      bracket_value(sections[Len(sections)].operand))

\* The code of the sections when every operand is loaded as a value: no
\* instruction of a bracket's own code is among them.
enclosing_code(sections) ==
    LET pair(i) == <<Request("MOV", <<Reg("RCX"), Imm(bracket_value(sections[2 * i + 1].operand))>>)>>
                   \o operation_requests(sections[2 * i].operation)
        pairs[i \in 0..((Len(sections) - 1) \div 2)] ==
            IF i = 0 THEN <<>> ELSE pairs[i - 1] \o pair(i)
    IN  <<Request("PUSH", <<Reg("RBP")>>), Request("MOV", <<Reg("RBP"), Reg("RSP")>>),
          Request("MOV", <<Reg("RAX"), Imm(bracket_value(sections[1].operand))>>)>>
        \o pairs[(Len(sections) - 1) \div 2]
        \o <<Request("POP", <<Reg("RBP")>>), Request("RET", <<>>)>>

(***************************************************************************)
(* C30: compiling a bracketed operand does not disturb the enclosing       *)
(* expression: when the definition has been compiled, the code buffer      *)
(* holds the instructions of the enclosing expression only, each bracket   *)
(* loaded as its value at its place, and the value stored is the one the   *)
(* expression has with every bracket replaced by its value, at any depth.  *)
(***************************************************************************)
C30_NestedMathLeavesEnclosingCode ==
    [][(/\ pending # <<>> /\ compile_result = None
        /\ Head(pending).kind = "Definition"
        /\ Head(pending).expression.kind = "Math"
        /\ is_bracket_math(Head(pending).expression.sections)
        /\ bracket_count(Head(pending).expression.sections) >= 1
        /\ Len(assigned') > Len(assigned))
       => (/\ assigned'[Len(assigned')].value = math_value(Head(pending).expression.sections)
           /\ compiler'.code_buffer = enclosing_code(Head(pending).expression.sections))]_vars

\* [[[0d2 + 0d3] * [0d4 - 0d1]] / [0d5 + 0d10]] has been compiled: the
\* buffer holds the division of 15 by 15 and x is 1.
C30_Witness ==
    /\ assigned = <<[name |-> <<"x">>, value |-> 1]>>
    /\ Len(compiler.code_buffer) = 8
    /\ compiler.code_buffer[3] = Request("MOV", <<Reg("RAX"), Imm(15)>>)
    /\ compiler.code_buffer[4] = Request("MOV", <<Reg("RCX"), Imm(15)>>)
    /\ compiler.code_buffer[6].mnemonic = "IDIV"
    /\ compiler.executions = 5

(***************************************************************************)
(* The variable store near its end: the compiler has already compiled a    *)
(* number of definitions when the program is handed to it.                 *)
(***************************************************************************)

\* The compiler after n compilations of the definition `u : 0d2` (a number
\* emits no code): u is bound to slot n and the slots up to n, as far as
\* the store reaches, hold 2.
after_definitions(n) ==
    [JITCompiler EXCEPT !.variables = IF n = 0 THEN <<>> ELSE (<<"u">> :> n),
                        !.stack_offset = n,
                        !.stack_memory = [i \in 1..(IF n < StackSlots THEN n ELSE StackSlots) |-> 2]]

\* How many definitions `u : 0d2` were compiled before the program.
Preloaded == {0, StackSlots - 1}

StoreStatements ==
    { ASTDefinition(<<X>>, [kind |-> "Number", number |-> decimal(3)]),
      ASTDefinition(<<Y>>, [kind |-> "IdentifierChain", chain |-> X]),
      ASTDefinition(<<X, Y>>, ASTMath(math_chain(<<1, 2, 3>>, <<"Add", "Multiply">>))),
      ASTDefinition(<<Y>>, ASTMath(<<VariableSection(MathIdentifierChain(U)),
                                     OperationSection("Add"),
                                     VariableSection(MathNumber(1))>>)) }

StorePrograms == SequencesUpTo(StoreStatements, 1, MaxJitStatements)

StoreInit ==
    /\ library_idle /\ main_idle /\ number_idle /\ builder_idle /\ execute_idle
    /\ contract_idle
    /\ compiler \in {after_definitions(n) : n \in Preloaded}
    /\ pending \in StorePrograms
    /\ compile_result = None /\ assigned = <<>> /\ last_read = None

SpecJitStore == StoreInit /\ [][JitNext]_vars

\* The positions of assigned that are the last assignment of their name.
last_assignments == {k \in 1..Len(assigned) :
                        \A m \in (k + 1)..Len(assigned) : assigned[m].name # assigned[k].name}

(***************************************************************************)
(* C28: every variable for which compile_definition_with_storage returned  *)
(* success can afterwards be read back with the value it was defined       *)
(* with, however many definitions were compiled before it: no definition   *)
(* succeeds and leaves its variable unreadable or holding another value.   *)
(***************************************************************************)
C28_DefinedVariablesReadBack ==
    \A k \in last_assignments :
        get_variable_value(compiler, assigned[k].name) = Some(assigned[k].value)

(***************************************************************************)
(* Reading the order of a flattened chain against the statements of the    *)
(* tree it came from.                                                      *)
(***************************************************************************)
children_kind(node, kind) ==
    LET of_kind(child) == child.kind = kind
    IN  SelectSeq(node.children, of_kind)

\* The name a statement of the tree defines, None for a bare expression.
declared_name(stmt) ==
    IF children_kind(stmt, "definition") = <<>> THEN None
    ELSE IF children_kind(children_kind(stmt, "definition")[1], "identifier_chain") = <<>>
    THEN Some(<<>>)
    ELSE Some(children_kind(children_kind(stmt, "definition")[1], "identifier_chain")[1].text)

entry_name(entry) ==
    IF entry.definition = None THEN None ELSE Some(entry.definition[1].name)

is_temporary_entry(entry) ==
    /\ entry.definition # None
    /\ Len(entry.definition[1].name) >= 3
    /\ is_temporary_word(entry.definition[1].name, 1, Len(entry.definition[1].name))

user_positions(entries) == {i \in 1..Len(entries) : ~is_temporary_entry(entries[i])}

\* The k-th position of a set of positions, counted from the least.
kth(positions, k) ==
    CHOOSE i \in positions : Cardinality({u \in positions : u <= i}) = k

\* The position of the first user statement after position j, 0 if none.
next_user(entries, j) ==
    LET later == {i \in user_positions(entries) : i > j}
    IN  IF later = {} THEN 0 ELSE CHOOSE i \in later : \A u \in later : i <= u

base_of(user_entry) ==
    IF user_entry.definition = None THEN Temporary ELSE user_entry.definition[1].name

in_textual_order(entries, tree_statements) ==
    /\ Cardinality(user_positions(entries)) = Len(tree_statements)
    /\ \A k \in 1..Len(tree_statements) :
          entry_name(entries[kth(user_positions(entries), k)]) = declared_name(tree_statements[k])
    /\ \A j \in 1..Len(entries) :
          is_temporary_entry(entries[j]) =>
              /\ next_user(entries, j) # 0
              /\ starts_with(entries[j].definition[1].name,
                             base_of(entries[next_user(entries, j)]) \o <<"_">>)
              /\ \E m \in (j + 1)..next_user(entries, j) :
                    entries[j].definition[1].name \in statement_reads(entries[m])

(***************************************************************************)
(* C18: the user statements appear in the flattened output in textual      *)
(* order: the entry for s1 and every temporary generated for s1 precede    *)
(* the entry for s2 and its temporaries, and the temporaries of a          *)
(* statement come immediately before that statement.                       *)
(***************************************************************************)
C18_StatementsInTextualOrder ==
    \A result \in Results :
        result.kind = "Ok" =>
            /\ Len(result.root[1].statement_chains) = Len(children_kind(tree, "statement_chain"))
            /\ \A c \in 1..Len(result.root[1].statement_chains) :
                  in_textual_order(result.root[1].statement_chains[c].statements,
                                   children_kind(children_kind(tree, "statement_chain")[c], "statement"))

\* A chain of two user statements, each with a temporary before it.
C18_Witness ==
    /\ flattened.kind = "Ok"
    /\ \E c \in 1..Len(flattened.root[1].statement_chains) :
          LET entries == flattened.root[1].statement_chains[c].statements
          IN  /\ Cardinality(user_positions(entries)) = 2
              /\ is_temporary_entry(entries[1])
              /\ is_temporary_entry(entries[Len(entries) - 1])
              /\ kth(user_positions(entries), 1) < Len(entries) - 1

(***************************************************************************)
(* Expression trees: what an operand/operator sequence means under the     *)
(* conventional precedence, and what the entries of a chain compute once   *)
(* the temporaries are replaced by their definitions.                      *)
(***************************************************************************)

Additive == {"+", "-"}

Multiplicative == {"*", "/", "%"}

leaf(text) == <<text>>

operation(op, left, right) == <<string_to_arithmetic(<<op>>)[1], left, right>>

\* The positions of the additive operators of a sequence.
additive_positions(ops) == {i \in 1..Len(ops) : ops[i] \in Additive}

RECURSIVE term_tree(_, _, _)
\* The product of the operands from..to, grouped from the left.
term_tree(ops, from, to) ==
    IF to = from THEN leaf(<<OperandNames[from]>>)
    ELSE operation(ops[to - 1], term_tree(ops, from, to - 1), leaf(<<OperandNames[to]>>))

\* The operand position where the term that ends at operand `to` starts.
term_start(ops, to) ==
    LET before == {i \in additive_positions(ops) : i < to}
    IN  IF before = {} THEN 1 ELSE (CHOOSE i \in before : \A j \in before : j <= i) + 1

RECURSIVE sum_tree(_, _)
\* The sum of the terms of operands 1..to, grouped from the left.
sum_tree(ops, to) ==
    IF term_start(ops, to) = 1 THEN term_tree(ops, 1, to)
    ELSE operation(ops[term_start(ops, to) - 1],
                   sum_tree(ops, term_start(ops, to) - 1),
                   term_tree(ops, term_start(ops, to), to))

conventional(ops) == sum_tree(ops, Len(ops) + 1)

RECURSIVE expand_operand(_, _, _)
RECURSIVE expand_entry(_, _)
\* An operand of entry i: the tree of the temporary it names, or a leaf.
expand_operand(entries, i, operand) ==
    IF operand.tag = "Identifier" /\ defined_before(entries, i, operand.text) # 0
    THEN expand_entry(entries, defined_before(entries, i, operand.text))
    ELSE leaf(operand.text)

expand_entry(entries, i) ==
    IF entries[i].expression[1].two = None
    THEN expand_operand(entries, i, entries[i].expression[1].one)
    ELSE <<entries[i].expression[1].arithmetic[1],
           expand_operand(entries, i, entries[i].expression[1].one),
           expand_operand(entries, i, entries[i].expression[1].two[1])>>

is_mixed(ops) == (\E i \in 1..Len(ops) : ops[i] \in Additive)
                 /\ (\E i \in 1..Len(ops) : ops[i] \in Multiplicative)

entry_operator(entry) ==
    IF entry.expression = None \/ entry.expression[1].arithmetic = None THEN None
    ELSE entry.expression[1].arithmetic

(***************************************************************************)
(* C25: for every bracket-free sequence that mixes + or - with *, / or %,  *)
(* every multiplicative operation is emitted before any additive one and   *)
(* the emitted statements compute the value the conventional precedence    *)
(* gives, operators of equal precedence grouping from the left.            *)
(***************************************************************************)
C25_ConventionalPrecedence ==
    \A ops \in OperatorSequences :
        (is_mixed(ops) /\ tree = program(<<statement(<<constant_definition(<<"x">>), precedence_expression(ops)>>)>>)) =>
            \A result \in Results : result # NotCalled =>
                /\ result.kind = "Ok"
                /\ LET entries == result.root[1].statement_chains[1].statements
                   IN  /\ expand_entry(entries, Len(entries)) = conventional(ops)
                       /\ \A i \in 1..Len(entries), j \in 1..Len(entries) :
                             (i < j /\ entry_operator(entries[i]) \in {Some("Add"), Some("Substract")})
                                 => entry_operator(entries[j]) \in {Some("Add"), Some("Substract")}

\* Operands a user may write, with the kind of token each one is.
UserOperands ==
    { [node |-> number(<<"0", "d", "1">>), tag |-> "Number"],
      [node |-> number(<<"0", "x", "F">>), tag |-> "Number"],
      [node |-> string(<<"\"", "s", "\"">>), tag |-> "String"],
      [node |-> string(<<"\"", "s", " ", "t", "\"">>), tag |-> "String"],
      [node |-> name_chain(<<"a">>), tag |-> "Identifier"] }

\* The expressions of OperandExpressions that hold the operand v.
operand_expressions(v) ==
    { simple(v), infix(v, "+", operand_at(2)), infix(operand_at(1), "*", v),
      expression(<<section(<<>>, operand_at(1)), section(<<"*">>, operand_at(2)), section(<<"+">>, v)>>) }

(***************************************************************************)
(* C26: every operand the user wrote reaches the flattened output with its *)
(* kind and its exact source bytes: a string stays a String holding its    *)
(* token whatever characters it contains and wherever it stands, a number  *)
(* stays a Number, an identifier an Identifier.                            *)
(***************************************************************************)
C26_OperandsKeepKindAndBytes ==
    \A operand \in UserOperands : \A e \in operand_expressions(plain(operand.node)) :
        tree = program(<<statement(<<constant_definition(<<"x">>), e>>)>>) =>
            \A result \in Results : result # NotCalled =>
                /\ result.kind = "Ok"
                /\ \E statements \in chains_of(result) : \E i \in 1..Len(statements) :
                      FlatVariable(operand.tag, operand.node.text) \in operands_of(statements[i])

(***************************************************************************)
(* C29: every tree that validate_tree accepts is flattened by flatten_tree *)
(* without an error, so process_tree can fail in its validation step only. *)
(***************************************************************************)
C29_ValidatedTreesFlatten ==
    /\ (validated.kind = "Ok" /\ flattened # NotCalled) => flattened.kind = "Ok"
    /\ (processed.result # NotCalled /\ processed.result.kind # "Ok") =>
          /\ processed.result.kind = "Err"
          /\ processed.result.error[1].type = "ValidationError"

(***************************************************************************)
(* C24: within one statement chain no name is defined twice by the         *)
(* flattener: a generated temporary name differs from the name of every    *)
(* other entry of the chain, temporary or defined by the user.             *)
(***************************************************************************)
C24_TemporaryNamesDistinct ==
    \A result \in Results :
        result.kind = "Ok" =>
            \A c \in 1..Len(result.root[1].statement_chains) :
                LET entries == result.root[1].statement_chains[c].statements
                IN  \A i \in 1..Len(entries), j \in 1..Len(entries) :
                        (i # j /\ is_temporary_entry(entries[i]) /\ entries[j].definition # None)
                            => entries[i].definition[1].name # entries[j].definition[1].name

(***************************************************************************)
(* The binary builder: three slots, filled with the indices its parent     *)
(* returns.  The builder lives in an open source builder (the last of      *)
(* `builders`), to which it forwards every insertion: a number goes to the *)
(* pool of the root, an identifier to the pool of the source, a finished   *)
(* nested binary to the expression list of the source.  `offers` is the    *)
(* list of the calls made on the builder; a hard error ends the flattening,*)
(* so nothing is offered after one.                                        *)
(***************************************************************************)
MaxOffers == 4

FlatOperators == {"Add", "Constant"}

accepted(builder) == [kind |-> "Ok", builder |-> builder, detail |-> ""]

FlattenError(builder, detail) == [kind |-> "Err", builder |-> builder, detail |-> detail]

\* An index is written over whatever the slot holds.
binary_index_overwriting(builder, index) ==
    IF builder.operator = None THEN accepted([builder EXCEPT !.one = Some(index)])
    ELSE accepted([builder EXCEPT !.two = Some(index)])

\* `one` takes the first operand and only while no operator has been seen;
\* `two` takes the operand that follows the operator; an operand that finds
\* its slot taken cannot be accepted.
binary_index(builder, index) ==
    IF builder.operator = None
    THEN IF builder.one = None THEN accepted([builder EXCEPT !.one = Some(index)])
         ELSE FlattenError(builder, "second operand before the operator")
    ELSE IF builder.two = None THEN accepted([builder EXCEPT !.two = Some(index)])
         ELSE FlattenError(builder, "third operand")

binary_operator(builder, op) ==
    IF builder.operator = None THEN accepted([builder EXCEPT !.operator = Some(op)])
    ELSE FlattenError(builder, "second operator")

\* The final conversion to FlatBinary.
into_flat_binary(builder) ==
    IF builder.two # None /\ builder.operator # None
    THEN [kind |-> "Ok", binary |-> Some(FlatBinary(builder.one, builder.two[1], builder.operator[1])),
          detail |-> ""]
    ELSE [kind |-> "Err", binary |-> None, detail |-> "incomplete binary"]

BinaryInit ==
    /\ library_idle /\ main_idle /\ number_idle /\ execute_idle /\ jit_idle
    /\ numbers = <<>> /\ strings = <<>> /\ sources = <<>> /\ builders = <<EmptySource>>
    /\ last_call = [op |-> "none"] /\ returned = None /\ calls = 0
    /\ binary = EmptyBinary /\ offers = <<>> /\ conversion = None
    /\ parse_tree = None /\ trace = <<>> /\ flat = None /\ root_offer = None
    /\ tac_idle

\* The slot update every send_ ends with, and the record of the call.
offered(method, value, r) ==
    /\ binary' = r.builder
    /\ conversion' = IF r.kind = "Ok" THEN None
                     ELSE Some([kind |-> "Err", binary |-> None, detail |-> r.detail])
    /\ offers' = Append(offers, [call |-> method, value |-> value])

open_binary == conversion = None /\ Len(offers) < MaxOffers

BinarySendNumber ==
    /\ open_binary
    /\ \E token \in NumberTokens :
          /\ numbers' = intern(numbers, token).pool
          /\ offered("index", FlatIndex("Number", intern(numbers, token).index),
                     binary_index(binary, FlatIndex("Number", intern(numbers, token).index)))
    /\ UNCHANGED <<strings, sources, builders, last_call, returned, calls>>
    /\ UNCHANGED <<parse_tree, trace, flat, root_offer, tac_vars>>
    /\ UNCHANGED <<library_vars, main_vars, number_vars, execute_vars, jit_vars>>

BinarySendIdentifier ==
    /\ open_binary
    /\ \E token \in IdentifierTokens :
          /\ builders' = [builders EXCEPT ![Len(builders)].identifiers = intern(@, token).pool]
          /\ offered("index", FlatIndex("Identifier", intern(innermost.identifiers, token).index),
                     binary_index(binary, FlatIndex("Identifier",
                                                    intern(innermost.identifiers, token).index)))
    /\ UNCHANGED <<numbers, strings, sources, last_call, returned, calls>>
    /\ UNCHANGED <<parse_tree, trace, flat, root_offer, tac_vars>>
    /\ UNCHANGED <<library_vars, main_vars, number_vars, execute_vars, jit_vars>>

\* A finished nested binary: the source appends it and the builder keeps
\* the index of the entry.
BinarySendExpression ==
    /\ open_binary
    /\ \E entry \in {[variant |-> "Additive",
                      binary |-> FlatBinary(None, FlatIndex("Number", 0), "Subtract")]} :
          /\ builders' = [builders EXCEPT ![Len(builders)].expressions =
                                              append_expression(@, entry).pool,
                                          ![Len(builders)].taken = @ + 1]
          /\ offered("index",
                     FlatIndex("Expression", append_expression(innermost.expressions, entry).index),
                     binary_index(binary, FlatIndex("Expression",
                                      append_expression(innermost.expressions, entry).index)))
    /\ UNCHANGED <<numbers, strings, sources, last_call, returned, calls>>
    /\ UNCHANGED <<parse_tree, trace, flat, root_offer, tac_vars>>
    /\ UNCHANGED <<library_vars, main_vars, number_vars, execute_vars, jit_vars>>

BinaryOperator ==
    /\ open_binary
    /\ \E op \in FlatOperators : offered("operator", op, binary_operator(binary, op))
    /\ UNCHANGED builder_vars
    /\ UNCHANGED <<parse_tree, trace, flat, root_offer, tac_vars>>
    /\ UNCHANGED <<library_vars, main_vars, number_vars, execute_vars, jit_vars>>

BinaryConvert ==
    /\ conversion = None
    /\ conversion' = Some(into_flat_binary(binary))
    /\ UNCHANGED <<binary, offers>>
    /\ UNCHANGED builder_vars
    /\ UNCHANGED <<parse_tree, trace, flat, root_offer, tac_vars>>
    /\ UNCHANGED <<library_vars, main_vars, number_vars, execute_vars, jit_vars>>

BinaryNext ==
    \/ BinarySendNumber
    \/ BinarySendIdentifier
    \/ BinarySendExpression
    \/ BinaryOperator
    \/ BinaryConvert

SpecBinary == BinaryInit /\ [][BinaryNext]_vars

\* The calls the builder accepted: all of them, but for the last when it
\* was refused.
refused == conversion # None /\ conversion[1].kind = "Err" /\ conversion[1].detail # "incomplete binary"

accepted_offers == IF refused THEN SubSeq(offers, 1, Len(offers) - 1) ELSE offers

operator_positions(calls_made) == {i \in 1..Len(calls_made) : calls_made[i].call = "operator"}

index_positions(calls_made) == {i \in 1..Len(calls_made) : calls_made[i].call = "index"}

\* The index calls before any operator call, and those after one.
early_indices(calls_made) ==
    {i \in index_positions(calls_made) : \A o \in operator_positions(calls_made) : i < o}

late_indices(calls_made) ==
    {i \in index_positions(calls_made) : \E o \in operator_positions(calls_made) : o < i}

slot_of(calls_made, positions) ==
    IF positions = {} THEN None ELSE Some(calls_made[CHOOSE i \in positions : TRUE].value)

MaxNesting == 2

Builder(id, variant) ==
    [id |-> id, variant |-> variant, numbers |-> <<>>, strings |-> <<>>, sources |-> <<>>,
     expressions |-> <<>>, identifiers |-> <<>>, one |-> None, two |-> None, operator |-> None]

RootBuilder == Builder(0, "Root")

Containers == {"source_file", "source"}

BinaryForms ==
    {"member", "call", "multiplicative", "additive", "comparison", "logical", "assign"}

NumberKinds == {"binary", "octal", "decimal", "hex"}

StringKinds == {"single_quoted", "double_quoted"}

OperatorKinds ==
    {"extract", "pipe", "multiply", "divide", "modulo", "add", "subtract", "equal", "not_equal",
     "less_than", "greater_than", "less_equal", "greater_equal", "and", "or", "constant",
     "variable"}

visit_ok(ts) == [kind |-> "Ok", ts |-> ts, detail |-> ""]

visit_err(ts, detail) == [kind |-> "Err", ts |-> ts, detail |-> detail]

traced(ts, method, builder) ==
    [ts EXCEPT !.trace = Append(@, [call |-> method, on |-> builder.variant, id |-> builder.id])]

\* A root that accepts whatever it is offered.
root_accepts_all(method) == TRUE

\* Root accepts exactly source, number, string.
root_accepts(method) ==
    method \in {"take_source", "send_source", "take_number", "send_number",
                "take_string", "send_string"}

\* The nearest source builder at or below a level of the stack, 0 if none.
nearest_source(stack, level) ==
    LET below == {i \in 1..level : stack[i].variant = "Source"}
    IN  IF below = {} THEN 0 ELSE CHOOSE i \in below : \A j \in below : j <= i

\* send_ from the builder at `level`: the insertion walks up to the builder
\* that owns the pool or the list and the index comes back.  The value is
\* [kind, ts, index, detail].
send_up(ts, level, what, payload) ==
    LET owner == IF what \in {"number", "string", "source"} THEN 1
                 ELSE IF nearest_source(ts.stack, level) = 0 THEN 1
                 ELSE nearest_source(ts.stack, level)
        field == IF what = "number" THEN "numbers" ELSE IF what = "string" THEN "strings"
                 ELSE IF what = "source" THEN "sources"
                 ELSE IF what = "identifier" THEN "identifiers" ELSE "expressions"
        tag == IF what = "number" THEN "Number" ELSE IF what = "string" THEN "String"
               ELSE IF what = "source" THEN "Source"
               ELSE IF what = "identifier" THEN "Identifier" ELSE "Expression"
        put == IF what \in {"source", "expression"}
               THEN append_expression(ts.stack[owner][field], payload)
               ELSE intern(ts.stack[owner][field], payload)
        seen == traced(ts, "send_" \o what, ts.stack[owner])
    IN  IF owner = 1 /\ ~root_accepts("send_" \o what)
        THEN [kind |-> "Err", ts |-> seen, index |-> FlatIndex(tag, 0),
              detail |-> "the root builder rejects it"]
        ELSE [kind |-> "Ok",
              ts |-> [seen EXCEPT !.stack[owner][field] = put.pool],
              index |-> FlatIndex(tag, put.index), detail |-> ""]

\* take_ on the current builder, the top of the stack.
take(ts, what, payload) ==
    LET level == Len(ts.stack)
        current == ts.stack[level]
        seen == traced(ts, "take_" \o what, current)
        record(r) ==
            IF r.kind = "Err" THEN visit_err(r.ts, r.detail)
            ELSE LET stored(b) ==
                         IF b.kind = "Err" THEN visit_err(traced(r.ts, "index", current), b.detail)
                         ELSE visit_ok([traced(r.ts, "index", current) EXCEPT
                                            !.stack[level] = b.builder])
                 IN  stored(binary_index(current, r.index))
        listed(r) ==
            IF r.kind = "Err" THEN visit_err(r.ts, r.detail)
            ELSE visit_ok([r.ts EXCEPT !.stack[level].expressions =
                               Append(@, [variant |-> "Index", index |-> r.index])])
    IN  IF current.variant = "Root"
        THEN IF ~root_accepts("take_" \o what)
             THEN visit_err(seen, "the root builder rejects it")
             ELSE LET kept(r) == IF r.kind = "Err" THEN visit_err(r.ts, r.detail)
                                 ELSE visit_ok(r.ts)
                  IN  kept(send_up(seen, level, what, payload))
        ELSE IF current.variant = "Source"
        THEN IF what = "expression"
             THEN visit_ok([seen EXCEPT !.stack[level].expressions = Append(@, payload)])
             ELSE listed(send_up(seen, level, what, payload))
        ELSE record(send_up(ts, level - 1, what, payload))

\* operator on the current builder.
operator_leaf(ts, op) ==
    LET level == Len(ts.stack)
        current == ts.stack[level]
        seen == traced(ts, "operator", current)
        stored(b) == IF b.kind = "Err" THEN visit_err(seen, b.detail)
                   ELSE visit_ok([seen EXCEPT !.stack[level] = b.builder])
    IN  IF current.variant = "Binary" THEN stored(binary_operator(current, op))
        ELSE visit_err(seen, "an operator outside a binary")

push_builder(ts, variant) ==
    [ts EXCEPT !.stack = Append(@, Builder(ts.made + 1, variant)), !.made = @ + 1]

pop_builder(ts) == [ts EXCEPT !.stack = SubSeq(@, 1, Len(@) - 1)]

RECURSIVE visit(_, _)
RECURSIVE visit_children(_, _, _)

visit_children(nodes, i, ts) ==
    IF i > Len(nodes) THEN visit_ok(ts)
    ELSE LET next(r) == IF r.kind = "Err" THEN r ELSE visit_children(nodes, i + 1, r.ts)
         IN  next(visit(nodes[i], ts))

visit(node, ts) ==
    LET top(r) == r.ts.stack[Len(r.ts.stack)]
        close_source(r) ==
            IF r.kind = "Err" THEN r
            ELSE take(pop_builder(r.ts), "source",
                      [expressions |-> top(r).expressions, identifiers |-> top(r).identifiers])
        converted(r, c) ==
            IF c.kind = "Err" THEN visit_err(r.ts, c.detail)
            ELSE take(pop_builder(r.ts), "expression",
                      [variant |-> node.kind, binary |-> c.binary[1]])
        close_binary(r) ==
            IF r.kind = "Err" THEN r ELSE converted(r, into_flat_binary(top(r)))
    IN  IF node.kind \in Containers
        THEN close_source(visit_children(node.children, 1, push_builder(ts, "Source")))
        ELSE IF node.kind \in BinaryForms
        THEN close_binary(visit_children(node.children, 1, push_builder(ts, "Binary")))
        ELSE IF node.kind = "parenthesize" THEN visit_children(node.children, 1, ts)
        ELSE IF node.kind \in NumberKinds THEN take(ts, "number", node.text)
        ELSE IF node.kind \in StringKinds THEN take(ts, "string", node.text)
        ELSE IF node.kind = "identifier" THEN take(ts, "identifier", node.text)
        ELSE IF node.kind \in OperatorKinds THEN operator_leaf(ts, node.kind)
        ELSE visit_err(ts, "unknown node kind")

flatten_indexed(node) == visit(node, [stack |-> <<RootBuilder>>, trace |-> <<>>, made |-> 0])

\* One call offered to a root builder that holds nothing.
offer_root(method) ==
    IF method = "operator"
    THEN operator_leaf([stack |-> <<RootBuilder>>, trace |-> <<>>, made |-> 0], "add")
    ELSE IF method = "index"
    THEN IF root_accepts("index")
         THEN visit_ok([stack |-> <<RootBuilder>>, trace |-> <<>>, made |-> 0])
         ELSE visit_err([stack |-> <<RootBuilder>>, trace |-> <<>>, made |-> 0],
                        "the root builder rejects it")
    ELSE take([stack |-> <<RootBuilder>>, trace |-> <<>>, made |-> 0], method,
              IF method = "number" THEN "0d10"
              ELSE IF method = "string" THEN "'a'"
              ELSE IF method = "identifier" THEN "x"
              ELSE IF method = "source" THEN [expressions |-> <<>>, identifiers |-> <<>>]
              ELSE [variant |-> "additive",
                    binary |-> FlatBinary(None, FlatIndex("Number", 0), "subtract")])

(***************************************************************************)
(* Valid parse trees: a source_file of statements; a binary node has at    *)
(* most one left operand, one operator leaf and one right operand.         *)
(***************************************************************************)
Leaf(kind, text) == Node(kind, text, <<>>)

Literals == {Leaf("decimal", "0d10"), Leaf("decimal", "0d2"), Leaf("identifier", "x")}

Forms == {<<"additive", "subtract">>, <<"multiplicative", "multiply">>}

binary_node(form, left, right) ==
    Node(form[1], "", left \o <<Leaf(form[2], form[2]), right>>)

parenthesize(inner) == Node("parenthesize", "", <<inner>>)

RECURSIVE ValidExpressions(_)
ValidExpressions(depth) ==
    IF depth = 0 THEN Literals
    ELSE ValidExpressions(depth - 1)
         \cup {binary_node(form, left, right) :
                  form \in Forms,
                  left \in {<<>>} \cup {<<l>> : l \in Literals},
                  right \in ValidExpressions(depth - 1)}
         \cup {binary_node(<<"additive", "add">>, <<parenthesize(left)>>, right) :
                  left \in ValidExpressions(depth - 1), right \in Literals}

ValidStatements ==
    ValidExpressions(MaxNesting)
        \cup {binary_node(<<"assign", "constant">>, <<Leaf("identifier", "y")>>, right) :
                 right \in ValidExpressions(MaxNesting)}
        \cup {binary_node(<<"assign", "constant">>, <<Leaf("identifier", "y")>>,
                          Node("source", "", <<inner>>)) :
                 inner \in ValidExpressions(1)}

ValidTrees ==
    {Node("source_file", "", <<one>>) : one \in ValidStatements}
        \cup {Node("source_file", "", <<one, two>>) :
                 one \in ValidExpressions(1), two \in ValidExpressions(1)}
        \cup {Node("source_file", "", <<>>)}

RootMethods == {"source", "number", "string", "expression", "identifier", "index", "operator"}

TraversalInit ==
    /\ library_idle /\ main_idle /\ number_idle /\ builder_idle /\ execute_idle /\ jit_idle
    /\ binary = EmptyBinary /\ offers = <<>> /\ conversion = None
    /\ parse_tree \in {Some(t) : t \in ValidTrees}
    /\ trace = <<>> /\ flat = None /\ root_offer = None
    /\ tac_idle

Traverse ==
    /\ flat = None
    /\ flat' = Some([kind |-> flatten_indexed(parse_tree[1]).kind,
                     root |-> flatten_indexed(parse_tree[1]).ts.stack[1],
                     depth |-> Len(flatten_indexed(parse_tree[1]).ts.stack)])
    /\ trace' = flatten_indexed(parse_tree[1]).ts.trace
    /\ UNCHANGED <<binary, offers, conversion, parse_tree, root_offer, tac_vars>>
    /\ UNCHANGED <<library_vars, main_vars, number_vars, builder_vars, execute_vars, jit_vars>>

RootOffer ==
    /\ root_offer = None
    /\ \E method \in RootMethods :
          root_offer' = Some([call |-> method, kind |-> offer_root(method).kind,
                              root |-> offer_root(method).ts.stack[1]])
    /\ UNCHANGED <<binary, offers, conversion, parse_tree, trace, flat, tac_vars>>
    /\ UNCHANGED <<library_vars, main_vars, number_vars, builder_vars, execute_vars, jit_vars>>

TraversalNext == Traverse \/ RootOffer

SpecTraversal == TraversalInit /\ [][TraversalNext]_vars

calls_on(id, method) == {i \in 1..Len(trace) : trace[i].id = id /\ trace[i].call = method}

(***************************************************************************)
(* C20: for every valid parse tree the traversal never calls operator or   *)
(* take_identifier on a root builder, never passes more than two operand   *)
(* indices to one binary builder and never more than one operator; and a   *)
(* root builder that is offered an expression, an identifier, an index or  *)
(* an operator rejects it with an error.                                   *)
(***************************************************************************)
C20_BuilderWellFormedness ==
    /\ flat # None =>
          /\ flat[1].kind = "Ok"
          /\ \A i \in 1..Len(trace) :
                trace[i].on = "Root" =>
                    trace[i].call \notin {"operator", "take_identifier", "send_identifier",
                                          "take_expression", "send_expression", "index"}
          /\ \A i \in 1..Len(trace) :
                trace[i].on = "Binary" =>
                    /\ Cardinality(calls_on(trace[i].id, "index")) <= 2
                    /\ Cardinality(calls_on(trace[i].id, "operator")) <= 1
    /\ root_offer # None =>
          /\ root_offer[1].call \in {"expression", "identifier", "index", "operator"} =>
                (root_offer[1].kind = "Err" /\ root_offer[1].root = RootBuilder)
          /\ root_offer[1].call \in {"source", "number", "string"} => root_offer[1].kind = "Ok"

\* A tree with a binary inside a binary has been traversed, the inner and
\* the outer builder were each given two indices and one operator, and the
\* root builder has refused an operator.
C20_Witness ==
    /\ flat # None /\ flat[1].kind = "Ok"
    /\ Cardinality({trace[i].id : i \in {j \in 1..Len(trace) :
            /\ trace[j].on = "Binary"
            /\ Cardinality(calls_on(trace[j].id, "index")) = 2
            /\ Cardinality(calls_on(trace[j].id, "operator")) = 1}}) >= 2
    /\ root_offer # None /\ root_offer[1].call = "operator" /\ root_offer[1].kind = "Err"

(***************************************************************************)
(* The three-address code of the logical operators, as flatten_tests.rs    *)
(* expects flatten_tree to emit it, and a machine that runs it.            *)
(***************************************************************************)

OperandIdentifier(name) == [tag |-> "Identifier", name |-> name, n |-> 0, value |-> 0]

OperandTemp(n) == [tag |-> "Temp", name |-> "", n |-> n, value |-> 0]

LiteralInteger(value) == [tag |-> "Literal", name |-> "", n |-> 0, value |-> value]

NoOperand == [tag |-> "None", name |-> "", n |-> 0, value |-> 0]

JumpIfZero(label, src) ==
    [op |-> "JumpIfZero", label |-> label, binary_op |-> "", dest |-> NoOperand,
     src1 |-> src, src2 |-> NoOperand]

InstructionBinary(binary_op, dest, src1, src2) ==
    [op |-> "Binary", label |-> "", binary_op |-> binary_op, dest |-> dest,
     src1 |-> src1, src2 |-> src2]

Jump(label) ==
    [op |-> "Jump", label |-> label, binary_op |-> "", dest |-> NoOperand,
     src1 |-> NoOperand, src2 |-> NoOperand]

Label(label) ==
    [op |-> "Label", label |-> label, binary_op |-> "", dest |-> NoOperand,
     src1 |-> NoOperand, src2 |-> NoOperand]

InstructionAssign(dest, src) ==
    [op |-> "Assign", label |-> "", binary_op |-> "", dest |-> dest,
     src1 |-> src, src2 |-> NoOperand]

\* flatten_tests.rs 84-104: the instructions expected for "a && b".
test_logical_and ==
    << JumpIfZero(".L0", OperandIdentifier("a")),
       InstructionBinary("Neq", OperandTemp(0), OperandIdentifier("b"), LiteralInteger(0)),
       Jump(".L1"),
       Label(".L0"),
       InstructionAssign(OperandTemp(0), LiteralInteger(0)),
       Label(".L1") >>

\* flatten_tests.rs 118-138: the instructions expected for "a || b".
test_logical_or ==
    << JumpIfZero(".L0", OperandIdentifier("a")),
       InstructionAssign(OperandTemp(0), LiteralInteger(1)),
       Jump(".L1"),
       Label(".L0"),
       InstructionBinary("Neq", OperandTemp(0), OperandIdentifier("b"), LiteralInteger(0)),
       Label(".L1") >>

LogicalCodes == {"a && b", "a || b"}

tac_instructions(code) == IF code = "a && b" THEN test_logical_and ELSE test_logical_or

\* The values the two identifiers may hold.
TacValues == {0 - 2, 0, 1, 3}

\* JumpIfZero jumps when its source is zero.
jump_never(value) == FALSE

jump_if_zero(value) == value = 0

operand_read(t, operand) ==
    IF operand.tag = "Identifier" THEN (IF operand.name = "a" THEN t.a ELSE t.b)
    ELSE IF operand.tag = "Temp" THEN t.temps[operand.n + 1][1]
    ELSE operand.value

operand_names(operand) == IF operand.tag = "Identifier" THEN {operand.name} ELSE {}

label_index(instructions, label) ==
    CHOOSE i \in 1..Len(instructions) :
        instructions[i].op = "Label" /\ instructions[i].label = label

set_temp(temps, n, value) ==
    [i \in 1..(IF n + 1 > Len(temps) THEN n + 1 ELSE Len(temps)) |->
        IF i = n + 1 THEN <<value>> ELSE IF i <= Len(temps) THEN temps[i] ELSE <<>>]

\* One instruction of the three-address code.
tac_step(t) ==
    LET instruction == t.instructions[t.pc]
        read1 == operand_read(t, instruction.src1)
    IN  IF instruction.op = "JumpIfZero"
        THEN [t EXCEPT !.reads = @ \cup operand_names(instruction.src1),
                       !.pc = IF jump_if_zero(read1)
                              THEN label_index(t.instructions, instruction.label)
                              ELSE t.pc + 1]
        ELSE IF instruction.op = "Jump"
        THEN [t EXCEPT !.pc = label_index(t.instructions, instruction.label)]
        ELSE IF instruction.op = "Label"
        THEN [t EXCEPT !.labels = Append(@, instruction.label), !.pc = t.pc + 1]
        ELSE IF instruction.op = "Assign"
        THEN [t EXCEPT !.reads = @ \cup operand_names(instruction.src1),
                       !.temps = set_temp(@, instruction.dest.n, read1),
                       !.pc = t.pc + 1]
        ELSE \* Binary Neq
             [t EXCEPT !.reads = @ \cup operand_names(instruction.src1)
                                   \cup operand_names(instruction.src2),
                       !.temps = set_temp(@, instruction.dest.n,
                                    IF read1 # operand_read(t, instruction.src2)
                                    THEN 1 ELSE 0),
                       !.pc = t.pc + 1]

TacInit ==
    /\ library_idle /\ main_idle /\ number_idle /\ builder_idle
    /\ machine_idle

\* flatten_tree on one of the two programs; the identifiers get values.
TacFlatten ==
    /\ tac.status \in {"idle", "done"}
    /\ \E code \in LogicalCodes, a \in TacValues, b \in TacValues :
          tac' = [tac_none EXCEPT !.status = "running", !.code = code,
                                  !.instructions = tac_instructions(code),
                                  !.pc = 1, !.a = a, !.b = b]
    /\ UNCHANGED <<library_vars, main_vars, number_vars, builder_vars, execute_vars, jit_vars>>
    /\ UNCHANGED <<binary, offers, conversion, parse_tree, trace, flat, root_offer>>

TacStep ==
    /\ tac.status = "running"
    /\ tac' = IF tac.pc > Len(tac.instructions)
              THEN [tac EXCEPT !.status = "done"]
              ELSE tac_step(tac)
    /\ UNCHANGED <<library_vars, main_vars, number_vars, builder_vars, execute_vars, jit_vars>>
    /\ UNCHANGED <<binary, offers, conversion, parse_tree, trace, flat, root_offer>>

TacNext ==
    \/ TacFlatten
    \/ TacStep

SpecTac == TacInit /\ [][TacNext]_vars

====
